---- MODULE Spec2Model ----
(***************************************************************************)
(* A model of rex's resource readers (venv/.../rex/resource.py):           *)
(* ResourceDataset, the h5py.Dataset wrapper that answers a slice request  *)
(* with one or several physical reads of a chunked dataset, reassembles    *)
(* them and unscales the result.                                           *)
(*                                                                         *)
(* Python values are modelled as follows.                                  *)
(*   - an optional value (None or v) is the sequence <<>> or <<v>>;        *)
(*   - one element of a ds_slice tuple is a record with a kind k:          *)
(*       "int"   an integer, idx = <<i>>                                   *)
(*       "slice" slice(start, stop, step), each bound optional             *)
(*       "list"  a list / ndarray of integers, idx = the entries           *)
(*       "split" a Python list of ndarrays (np.split's result) in parts    *)
(*       "mask"  a list of booleans, idx = the entries                     *)
(*   - an ndarray is [shape, dtype, data] with data a function from the    *)
(*     0-based index tuples of the shape to values;                        *)
(*   - a value is an exact rational <<numerator, denominator>> (float32    *)
(*     rounding is not modelled), a stored integer r being <<r, 1>>.       *)
(***************************************************************************)
EXTENDS Integers, Sequences, FiniteSets, TLC

\* ------------------------------------------------------------------ bounds
\* Length of the temporal axis of the modelled file.
NTime == 3
\* Length of the site axis of the modelled file.
NSite == 4
\* Length of the leading axis of the 3-D dataset.
NLevel == 2
\* Chunk extents of the chunked datasets along the temporal and site axes.
CTime == 2
CSite == 1
\* Longest index list requested on a 1-D dataset.
MaxLen == 3
\* Longest index list requested on one axis of a 2-D or 3-D dataset.
MaxLen2 == 2
\* Raw value stored at the first position of a dataset.
RawBase == 120
\* Step between the raw values of consecutive positions (row-major).
RawStep == 7

\* ------------------------------------------------------- small arithmetic
Max(a, b) == IF a >= b THEN a ELSE b
Min(a, b) == IF a <= b THEN a ELSE b
Abs(a) == IF a < 0 THEN -a ELSE a

RECURSIVE GCD(_, _)
GCD(a, b) == IF b = 0 THEN a ELSE GCD(b, a % b)

\* A rational in lowest terms with a positive denominator.
Norm(n, d) ==
    LET g == GCD(Abs(n), Abs(d))
        s == IF d < 0 THEN -1 ELSE 1
    IN  <<(s * n) \div g, (s * d) \div g>>

RatOfInt(r) == <<r, 1>>
RatMul(v, s) == Norm(v[1] * s, v[2])
RatAdd(v, a) == Norm(v[1] + a * v[2], v[2])
RatDiv(v, s) == Norm(v[1], v[2] * s)

SeqMin(s) == CHOOSE m \in {s[i] : i \in DOMAIN s} : \A i \in DOMAIN s : m <= s[i]
SeqMax(s) == CHOOSE m \in {s[i] : i \in DOMAIN s} : \A i \in DOMAIN s : m >= s[i]

\* All sequences over S of length 1 .. n.
SeqsUpTo(S, n) == UNION {[1..k -> S] : k \in 1..n}

\* ----------------------------------------------------- slice-tuple entries
None == <<>>
Some(v) == <<v>>

IntE(i) == [k |-> "int", idx |-> <<i>>, start |-> None, stop |-> None,
            step |-> None, parts |-> <<>>]
SliceE(a, b, c) == [k |-> "slice", idx |-> <<>>, start |-> a, stop |-> b,
                    step |-> c, parts |-> <<>>]
ListE(l) == [k |-> "list", idx |-> l, start |-> None, stop |-> None,
             step |-> None, parts |-> <<>>]
SplitE(p) == [k |-> "split", idx |-> <<>>, start |-> None, stop |-> None,
              step |-> None, parts |-> p]
MaskE(m) == [k |-> "mask", idx |-> m, start |-> None, stop |-> None,
             step |-> None, parts |-> <<>>]
\* slice(None)
FullSlice == SliceE(None, None, None)

\* isinstance(s, (list, np.ndarray)) and isinstance(s, (list, tuple, np.ndarray))
IsListLike(e) == e.k \in {"list", "split", "mask"}
\* np.issubdtype(np.array(s).dtype, bool)
IsMask(e) == e.k = "mask"
\* int(b) of a Python bool
BoolInt(b) == IF b THEN 1 ELSE 0
\* np.where(mask)[0]: the positions (0-based) of the true entries, ascending.
MaskList(m) ==
    LET T == {j \in DOMAIN m : m[j]}
    IN  [i \in 1..Cardinality(T) |->
            (CHOOSE j \in T : Cardinality({u \in T : u < j}) = i - 1) - 1]
\* np.array(s) of a list-like entry as the values np.argsort orders.
SortKeys(e) ==
    IF IsMask(e) THEN [j \in DOMAIN e.idx |-> BoolInt(e.idx[j])] ELSE e.idx
IsSlice(e) == e.k = "slice"
IsInt(e) == e.k = "int"
\* len(s) of a list-like entry
LenE(e) == IF e.k = "split" THEN Len(e.parts) ELSE Len(e.idx)

\* Python's slice.indices(length) for a positive step: <<start, stop, step>>.
SliceIndices(sl, length) ==
    LET step == IF sl.step = None THEN 1 ELSE sl.step[1]
        Clip(v) == IF v < 0 THEN Max(v + length, 0) ELSE Min(v, length)
        start == IF sl.start = None THEN 0 ELSE Clip(sl.start[1])
        stop == IF sl.stop = None THEN length ELSE Clip(sl.stop[1])
    IN  <<start, stop, step>>

\* len(range(start, stop, step))
RangeLen(t) == IF t[2] <= t[1] THEN 0 ELSE (t[2] - t[1] + t[3] - 1) \div t[3]
\* list(range(start, stop, step))
RangeSeq(t) == [j \in 1..RangeLen(t) |-> t[1] + (j - 1) * t[3]]

\* ----------------------------------------------------------------- arrays
\* The 0-based index tuples of an array of the given shape.
Indices(shape) ==
    LET m == IF Len(shape) = 0 THEN 0
             ELSE SeqMax(shape)
    IN  {f \in [1..Len(shape) -> 0..(m - 1)] :
            \A a \in 1..Len(shape) : f[a] < shape[a]}

NoArr == [shape |-> <<>>, dtype |-> "none", data |-> <<>>]

\* np.zeros(shape, dtype)
Zeros(shape, dtype) ==
    [shape |-> shape, dtype |-> dtype,
     data |-> [r \in Indices(shape) |-> RatOfInt(0)]]

\* A key padded with slice(None) on the trailing axes it does not name.
FullKey(key, rank) == key \o [j \in 1..(rank - Len(key)) |-> FullSlice]

\* The source positions one key entry selects on an axis of length n.
AxisSel(e, n) ==
    IF e.k = "slice" THEN RangeSeq(SliceIndices(e, n)) ELSE e.idx

\* The map of an indexing key (integers, slices and at most one index list)
\* applied to an array of the given shape: the shape of the selection and,
\* for every index tuple of the selection, the source index tuple.
KeyView(shape, key) ==
    LET rank == Len(shape)
        fk == FullKey(key, rank)
        sel == [a \in 1..rank |-> AxisSel(fk[a], shape[a])]
        pos == [a \in 1..rank |->
                  Cardinality({b \in 1..a : ~IsInt(fk[b])})]
        nkept == IF rank = 0 THEN 0 ELSE pos[rank]
        axisOf == [j \in 1..nkept |->
                     CHOOSE a \in 1..rank : ~IsInt(fk[a]) /\ pos[a] = j]
        shp == [j \in 1..nkept |-> Len(sel[axisOf[j]])]
    IN  [shape |-> shp,
         src |-> [r \in Indices(shp) |->
                    [a \in 1..rank |->
                       IF IsInt(fk[a]) THEN sel[a][1]
                       ELSE sel[a][r[pos[a]] + 1]]]]

\* arr[key] (numpy / h5py __getitem__)
ArrGet(arr, key) ==
    LET v == KeyView(arr.shape, key)
    IN  [shape |-> v.shape, dtype |-> arr.dtype,
         data |-> [r \in Indices(v.shape) |-> arr.data[v.src[r]]]]

\* numpy's rule for `out[key] = val`: val's shape, leading 1s dropped, must
\* broadcast to the shape of the selection.
StripOnes(vs, n) ==
    IF Len(vs) > n /\ \A j \in 1..(Len(vs) - n) : vs[j] = 1
    THEN SubSeq(vs, Len(vs) - n + 1, Len(vs))
    ELSE vs

CanBroadcast(vs0, ts) ==
    LET vs == StripOnes(vs0, Len(ts))
        off == Len(ts) - Len(vs)
    IN  /\ off >= 0
        /\ \A j \in 1..Len(vs) : vs[j] = ts[j + off] \/ vs[j] = 1

\* out[key] = val, for a val that broadcasts
ArrSet(out, key, val) ==
    LET v == KeyView(out.shape, key)
        nlead == IF Len(val.shape) > Len(v.shape)
                 THEN Len(val.shape) - Len(v.shape) ELSE 0
        off == Len(v.shape) - (Len(val.shape) - nlead)
        ValIdx(r) == [j \in 1..Len(val.shape) |->
                        IF j <= nlead \/ val.shape[j] = 1 THEN 0
                        ELSE r[j - nlead + off]]
        hit == {v.src[r] : r \in Indices(v.shape)}
    IN  [out EXCEPT !.data =
            [x \in DOMAIN out.data |->
                IF x \in hit
                THEN val.data[ValIdx(CHOOSE r \in Indices(v.shape) : v.src[r] = x)]
                ELSE out.data[x]]]

\* ------------------------------------------------------------ the h5 file
\* ds.attrs of each dataset of the modelled file: attribute name -> value.
AttrsScale10 == [scale_factor |-> 10]
AttrsScaleOffset == [scale_factor |-> 2, add_offset |-> 5]
AttrsOffset == [add_offset |-> 5]
AttrsNone == [psm_units |-> 0]

\* The h5py datasets of the modelled file. chunks = None is <<>>.
Datasets ==
    { [name |-> "windspeed_100m", shape |-> <<NTime, NSite - 1>>,
       chunks |-> Some(<<CTime, CSite>>), attrs |-> AttrsScale10, base |-> RawBase],
      [name |-> "profile", shape |-> <<NLevel, 2, 2>>,
       chunks |-> Some(<<1, 1, 1>>), attrs |-> AttrsNone, base |-> RawBase + 1],
      [name |-> "elevation", shape |-> <<NSite + 1>>,
       chunks |-> Some(<<CSite>>), attrs |-> AttrsNone, base |-> RawBase + 2],
      [name |-> "temperature_2m", shape |-> <<NSite>>,
       chunks |-> Some(<<CSite + 1>>), attrs |-> AttrsScaleOffset, base |-> RawBase + 3],
      [name |-> "surface_albedo", shape |-> <<NSite>>,
       chunks |-> None, attrs |-> AttrsOffset, base |-> 3] }

\* Row-major position of an index tuple.
RECURSIVE Linear(_, _, _)
Linear(shape, idx, a) ==
    IF a > Len(shape) THEN 0
    ELSE LET rest == Linear(shape, idx, a + 1)
             RECURSIVE Stride(_)
             Stride(b) == IF b > Len(shape) THEN 1 ELSE shape[b] * Stride(b + 1)
         IN  idx[a] * Stride(a + 1) + rest

\* The stored (raw) value of dataset d at an index tuple: distinct positions
\* hold distinct values.
RawAt(d, idx) == d.base + RawStep * Linear(d.shape, idx, 1)

\* The stored array of dataset d, in its stored dtype.
StoreArr(d) ==
    [shape |-> d.shape, dtype |-> "int",
     data |-> [r \in Indices(d.shape) |-> RatOfInt(RawAt(d, r))]]

\* ------------------------------------------------ ResourceDataset, helpers
\* Fault: the loop without its break, the last present name wins.
RECURSIVE _parse_scale_add_attrs_NoBreak(_, _, _)
_parse_scale_add_attrs_NoBreak(attrs, attr, default) ==
    IF attr = <<>> THEN default
    ELSE IF Head(attr) \in DOMAIN attrs
    THEN _parse_scale_add_attrs_NoBreak(attrs, Tail(attr), attrs[Head(attr)])
    ELSE _parse_scale_add_attrs_NoBreak(attrs, Tail(attr), default)

\* ResourceDataset._parse_scale_add_attrs, attr being a prioritized list.
RECURSIVE _parse_scale_add_attrs(_, _, _)
_parse_scale_add_attrs(attrs, attr, default) ==
    IF attr = <<>> THEN default
    ELSE IF Head(attr) \in DOMAIN attrs THEN attrs[Head(attr)]
    ELSE _parse_scale_add_attrs(attrs, Tail(attr), default)

\* Fault: an __init__ without lines 46-47, which keeps the caller's unscale
\* flag even when there is nothing to unscale.
__init___KeepFlag(d, scale_attr, add_attr, unscale_arg) ==
    [scale_factor |-> _parse_scale_add_attrs(d.attrs, scale_attr, 1),
     adder |-> _parse_scale_add_attrs(d.attrs, add_attr, 0),
     unscale |-> unscale_arg]

\* ResourceDataset.__init__: the wrapper's fields.
__init__(d, scale_attr, add_attr, unscale_arg) ==
    LET sf == _parse_scale_add_attrs(d.attrs, scale_attr, 1)
        ad == _parse_scale_add_attrs(d.attrs, add_attr, 0)
    IN  [scale_factor |-> sf, adder |-> ad,
         unscale |-> IF sf = 1 /\ ad = 0 THEN FALSE ELSE unscale_arg]

\* Fault: a _check_slice that cuts lists of different lengths to the
\* shortest instead of raising.
_check_slice_Truncate(ds_slice) ==
    LET lists == {a \in DOMAIN ds_slice : IsListLike(ds_slice[a])}
        lens == {LenE(ds_slice[a]) : a \in lists}
    IN  [raise |-> FALSE,
         shapes |-> lens,
         list_len |-> IF lens = {} THEN None
                      ELSE Some(CHOOSE n \in lens : \A m \in lens : n <= m),
         multi_list |-> Cardinality(lists) > 1]

\* ResourceDataset._check_slice: the lengths of the list entries, whether
\* there are several, and the IndexError when the lengths differ.
_check_slice(ds_slice) ==
    LET lists == {a \in DOMAIN ds_slice : IsListLike(ds_slice[a])}
        lens == {LenE(ds_slice[a]) : a \in lists}
    IN  [raise |-> Cardinality(lens) > 1,
         shapes |-> lens,
         list_len |-> IF Cardinality(lens) = 1
                      THEN Some(CHOOSE n \in lens : TRUE) ELSE None,
         multi_list |-> Cardinality(lists) > 1]

\* Fault: a _make_list_slices that sorts every index list before the lists
\* are walked in parallel.
_make_list_slices_Sorted(ds_slice, list_len) ==
    [a \in DOMAIN ds_slice |->
        LET s == ds_slice[a]
            n == Len(s.idx)
            p == CHOOSE q \in [1..n -> 1..n] :
                    /\ \A i, j \in 1..n : i # j => q[i] # q[j]
                    /\ \A j \in 1..(n - 1) : s.idx[q[j]] <= s.idx[q[j + 1]]
        IN  IF ~IsListLike(s) THEN [j \in 1..list_len |-> s]
            ELSE IF s.k = "split" THEN [j \in 1..Len(s.parts) |-> ListE(s.parts[j])]
            ELSE [j \in 1..n |-> IntE(s.idx[p[j]])]]

\* ResourceDataset._make_list_slices: per axis, the sequence zip() walks.
_make_list_slices(ds_slice, list_len) ==
    [a \in DOMAIN ds_slice |->
        LET s == ds_slice[a]
        IN  IF ~IsListLike(s) THEN [j \in 1..list_len |-> s]
            ELSE IF s.k = "split" THEN [j \in 1..Len(s.parts) |-> ListE(s.parts[j])]
            ELSE IF IsMask(s) THEN [j \in 1..Len(s.idx) |-> IntE(BoolInt(s.idx[j]))]
            ELSE [j \in 1..Len(s.idx) |-> IntE(s.idx[j])]]

\* zip(*zip_slices)
Zip(zs) ==
    LET n == IF Len(zs) = 0 THEN 0
             ELSE SeqMin([a \in DOMAIN zs |-> Len(zs[a])])
    IN  [j \in 1..n |-> [a \in DOMAIN zs |-> zs[a][j]]]

\* Fault: a _list_to_slice that hands an index list to the h5py dataset as
\* it is (fancy indexing at the store).
_list_to_slice_Fancy(e) ==
    IF IsInt(e) THEN [ds_slice |-> e, ds_idx |-> None]
    ELSE [ds_slice |-> e, ds_idx |-> Some(FullSlice)]

\* ResourceDataset._list_to_slice: (ds_slice, ds_idx), ds_idx optional.
_list_to_slice(e) ==
    IF IsListLike(e)
    THEN LET in_slice == IF IsMask(e) THEN MaskList(e.idx) ELSE e.idx
             s == SeqMin(in_slice)
             en == SeqMax(in_slice) + 1
         IN  [ds_slice |-> SliceE(Some(s), Some(en), None),
              ds_idx |-> Some(ListE([j \in DOMAIN in_slice |-> in_slice[j] - s]))]
    ELSE IF IsSlice(e) THEN [ds_slice |-> e, ds_idx |-> Some(FullSlice)]
    ELSE [ds_slice |-> e, ds_idx |-> None]

\* The loop of ResourceDataset._get_out_arr_slice over arr_slice[i..].
RECURSIVE OutArrSliceLoop(_, _, _, _)
OutArrSliceLoop(arr_slice, i, start, acc) ==
    IF i > Len(arr_slice) THEN acc
    ELSE LET s == arr_slice[i]
             nxt ==
               IF IsSlice(s)
               THEN [acc EXCEPT !.out_slice = Append(@, FullSlice),
                                !.int_slice = Append(@, FullSlice)]
               ELSE IF IsInt(s)
               THEN IF start = acc.int_stop
                    THEN [acc EXCEPT !.int_slice = Append(@, IntE(start)),
                                     !.int_stop = @ + 1]
                    ELSE acc
               ELSE IF LenE(s) = 1
               THEN [acc EXCEPT !.stop = @ + 1,
                                !.out_slice = Append(@, ListE(<<start>>))]
               ELSE [acc EXCEPT !.stop = @ + LenE(s),
                                !.out_slice =
                                    Append(@, SliceE(Some(start),
                                                     Some(acc.stop + LenE(s)), None))]
         IN  OutArrSliceLoop(arr_slice, i + 1, start, nxt)

\* Fault: a _get_out_arr_slice whose stop moves on by one whatever the
\* length of the sub-list (stop += 1 for stop += len(s)).
_get_out_arr_slice_StepOne(arr_slice, start) ==
    LET acc == OutArrSliceLoop(arr_slice, 1, start,
                   [out_slice |-> <<>>, int_slice |-> <<>>,
                    int_stop |-> start, stop |-> start])
    IN  IF acc.out_slice = <<>>
        THEN [out_slice |-> <<IntE(start)>>, stop |-> start + 1]
        ELSE IF \A j \in DOMAIN acc.out_slice : acc.out_slice[j] = FullSlice
        THEN [out_slice |-> acc.int_slice, stop |-> start + 1]
        ELSE [out_slice |-> acc.out_slice, stop |-> start + 1]

\* ResourceDataset._get_out_arr_slice: (out_slice, stop).
_get_out_arr_slice(arr_slice, start) ==
    LET acc == OutArrSliceLoop(arr_slice, 1, start,
                   [out_slice |-> <<>>, int_slice |-> <<>>,
                    int_stop |-> start, stop |-> start])
    IN  IF acc.out_slice = <<>>
        THEN [out_slice |-> <<IntE(start)>>, stop |-> acc.stop + 1]
        ELSE IF \A j \in DOMAIN acc.out_slice : acc.out_slice[j] = FullSlice
        THEN [out_slice |-> acc.int_slice, stop |-> acc.int_stop]
        ELSE [out_slice |-> acc.out_slice, stop |-> acc.stop]

\* The loop of ResourceDataset._get_out_arr_shape over the padded ds_slice.
RECURSIVE OutArrShapeLoop(_, _, _, _)
OutArrShapeLoop(ds_shape, ds_slice, i, acc) ==
    IF i > Len(ds_slice) \/ acc.raise THEN acc
    ELSE LET ax == ds_slice[i]
             stop == IF ax.stop = None THEN ds_shape[i] ELSE ax.stop[1]
             nxt ==
               IF IsSlice(ax)
               THEN IF stop < 0
                    THEN [acc EXCEPT !.raise = TRUE]
                    ELSE [acc EXCEPT !.shape =
                             Append(@, RangeLen(SliceIndices(ax, stop)))]
               ELSE IF IsListLike(ax)
               THEN [acc EXCEPT !.contains_list = TRUE,
                                !.shape = IF acc.contains_list THEN @
                                          ELSE Append(@, LenE(ax))]
               ELSE acc
         IN  OutArrShapeLoop(ds_shape, ds_slice, i + 1, nxt)

\* Fault: a _get_out_arr_shape without line 346, which leaves out the axes
\* the slice tuple does not name.
_get_out_arr_shape_NoPad(ds_shape, ds_slice) ==
    LET acc == OutArrShapeLoop(ds_shape, ds_slice, 1,
                   [shape |-> <<>>, contains_list |-> FALSE, raise |-> FALSE])
    IN  [raise |-> acc.raise, shape |-> acc.shape]

\* ResourceDataset._get_out_arr_shape: the shape, or the ValueError of
\* slice.indices(stop) for a negative stop.
_get_out_arr_shape(ds_shape, ds_slice) ==
    LET acc == OutArrShapeLoop(ds_shape, FullKey(ds_slice, Len(ds_shape)), 1,
                   [shape |-> <<>>, contains_list |-> FALSE, raise |-> FALSE])
    IN  [raise |-> acc.raise, shape |-> acc.shape]

\* --------------------------------------- ResourceDataset, the read plans
\* np.argsort(l): a permutation p (1-based) with l[p] ascending. numpy does
\* not fix the order of equal entries, so every such permutation is allowed.
ArgSorts(l) ==
    {p \in [1..Len(l) -> 1..Len(l)] :
        /\ \A i, j \in 1..Len(l) : i # j => p[i] # p[j]
        /\ \A j \in 1..(Len(l) - 1) : l[p[j]] <= l[p[j + 1]]}

\* Fault: sort_idx taken to be idx itself, not np.argsort(idx).
InversePerm_Forward(p) == p

\* np.argsort(idx) of a permutation idx: its inverse.
InversePerm(p) == [i \in DOMAIN p |-> CHOOSE j \in DOMAIN p : p[j] = i]

\* Fault: a split at every gap of at least c (np.diff(ax_slice) >= c).
SplitSorted_AtChunk(sorted, c) ==
    LET n == Len(sorted)
        starts == {1} \cup {j + 1 : j \in {i \in 1..(n - 1) :
                                            sorted[i + 1] - sorted[i] >= c}}
        StartOf(k) == CHOOSE s \in starts :
                          Cardinality({u \in starts : u < s}) = k - 1
        EndOf(k) == IF k = Cardinality(starts) THEN n ELSE StartOf(k + 1) - 1
    IN  [k \in 1..Cardinality(starts) |-> SubSeq(sorted, StartOf(k), EndOf(k))]

\* np.split(ax_slice, np.where(np.diff(ax_slice) > c)[0] + 1)
SplitSorted(sorted, c) ==
    LET n == Len(sorted)
        starts == {1} \cup {j + 1 : j \in {i \in 1..(n - 1) :
                                            sorted[i + 1] - sorted[i] > c}}
        StartOf(k) == CHOOSE s \in starts :
                          Cardinality({u \in starts : u < s}) = k - 1
        EndOf(k) == IF k = Cardinality(starts) THEN n ELSE StartOf(k + 1) - 1
    IN  [k \in 1..Cardinality(starts) |-> SubSeq(sorted, StartOf(k), EndOf(k))]

\* The body of the loop of ResourceDataset._extract_list_slice for one axis
\* of a chunked dataset: what is appended to out_slices and to sort_idx, and
\* the new list_len when the sorted list is split.
ListSliceAxis(ax_slice, c, p) ==
    IF IsListLike(ax_slice)
    THEN LET sorted == [j \in DOMAIN p |-> SortKeys(ax_slice)[p[j]]]
             \* np.diff of booleans is boolean, and True > c for no chunk c
             parts == IF IsMask(ax_slice) THEN <<sorted>>
                      ELSE SplitSorted(sorted, c)
             inv == InversePerm(p)
         IN  [out |-> IF Len(parts) > 1 THEN SplitE(parts) ELSE ListE(sorted),
              sort |-> Some(ListE([j \in DOMAIN inv |-> inv[j] - 1])),
              list_len |-> IF Len(parts) > 1 THEN Some(Len(parts)) ELSE None]
    ELSE [out |-> ax_slice,
          sort |-> IF IsSlice(ax_slice) THEN Some(FullSlice) ELSE None,
          list_len |-> None]

\* The concatenation of a sequence of sequences.
RECURSIVE Flatten(_)
Flatten(ss) == IF ss = <<>> THEN <<>> ELSE Head(ss) \o Flatten(Tail(ss))

\* Lines 381-409 of ResourceDataset._extract_list_slice: out_slices, sort_idx
\* and list_len, p being the argsort of the (single) list entry.
ListSlicePlan(ds_slice, chunks, p) ==
    IF chunks = None
    THEN [out_slices |-> ds_slice, sort_idx |-> <<>>, list_len |-> None]
    ELSE LET ax == [i \in DOMAIN ds_slice |->
                       ListSliceAxis(ds_slice[i], chunks[1][i], p)]
             lens == Flatten([i \in DOMAIN ds_slice |-> ax[i].list_len])
         IN  [out_slices |-> [i \in DOMAIN ds_slice |-> ax[i].out],
              sort_idx |-> Flatten([i \in DOMAIN ds_slice |-> ax[i].sort]),
              list_len |-> IF lens = <<>> THEN None ELSE Some(lens[Len(lens)])]

\* Lines 475-481 of ResourceDataset._extract_ds_slice: the tuple handed to
\* the h5py dataset and the index applied to what it returns.
DsSliceKeys(ds_slice) ==
    LET pr == [a \in DOMAIN ds_slice |-> _list_to_slice(ds_slice[a])]
    IN  [slices |-> [a \in DOMAIN ds_slice |-> pr[a].ds_slice],
         idx_slice |-> Flatten([a \in DOMAIN ds_slice |-> pr[a].ds_idx])]

\* Line 501: whether idx_slice needs to be applied.
NeedsIdx(idx_slice) == \E j \in DOMAIN idx_slice : idx_slice[j] # FullSlice

\* self.ds[slices]: the h5py read of dataset d.
StoreRead(d, slices) == ArrGet(StoreArr(d), slices)

\* ResourceDataset._extract_ds_slice when the read succeeds.
_extract_ds_slice(d, ds_slice) ==
    LET ks == DsSliceKeys(ds_slice)
        got == StoreRead(d, ks.slices)
    IN  IF NeedsIdx(ks.idx_slice) THEN ArrGet(got, ks.idx_slice) ELSE got

\* Fault: an _unscale_data that multiplies and adds whatever add_offset is.
_unscale_data_AlwaysScale(data, sf, ad) ==
    [shape |-> data.shape, dtype |-> "float32",
     data |-> [r \in DOMAIN data.data |-> RatAdd(RatMul(data.data[r], sf), ad)]]

\* ResourceDataset._unscale_data
_unscale_data(data, sf, ad) ==
    [shape |-> data.shape, dtype |-> "float32",
     data |-> [r \in DOMAIN data.data |->
                 IF ad # 0 THEN RatAdd(RatMul(data.data[r], sf), ad)
                 ELSE RatDiv(data.data[r], sf)]]

\* ----------------------------------------------------------------- state
VARIABLES
    _ds,            \* ResourceDataset._ds: the wrapped h5py dataset
    _scale_factor,  \* ResourceDataset._scale_factor
    _adder,         \* ResourceDataset._adder
    _unscale,       \* ResourceDataset._unscale
    pc,             \* "idle", "reading" (inside __getitem__), "done", "raised"
    ds_slice,       \* the ds_slice of the current / last __getitem__
    path,           \* branch taken: "none", "direct", "list", "split", "multi"
    plan,           \* the tuples handed to _extract_ds_slice, in order
    sort_idx,       \* _extract_list_slice's sort_idx
    start,          \* the loop variable start of the split / multi loops
    out,            \* the pre-built output array of the split / multi loops
    reads,          \* the reads of the h5py dataset made by the current call
    result,         \* what the last __getitem__ returned (NoArr: nothing)
    err,            \* what the last __getitem__ raised (NoErr: nothing)
    unscale_arg,    \* history: the unscale argument __init__ was given
    attr_arg,       \* history: the attribute names __init__ was given, and the
                    \* dataset's attributes as they were then
    memo,           \* history: one earlier call, its slice and what it returned
    order,          \* the plan positions read so far when reads complete out of order
    res,            \* the BaseResource: its file's shapes and its _unscale
    call,           \* the current BaseResource.__getitem__: keys, handler, outcome
    rechunk,        \* the RechunkH5 at work, when there is one
    web             \* the web handler at work, when there is one

vars == <<_ds, _scale_factor, _adder, _unscale, pc, ds_slice, path, plan,
          sort_idx, start, out, reads, result, err, unscale_arg, attr_arg, memo,
          order,
          res, call, rechunk, web>>

\* The accessor that owns the wrapper, when there is one.
accessor == <<res, call>>

\* The two callers of the resource classes in this repository.
tools == <<rechunk, web>>

history == <<unscale_arg, attr_arg, memo, order, accessor, tools>>

NoMemo == [set |-> FALSE, ds_slice |-> <<>>, result |-> NoArr]

wrapper == <<_ds, _scale_factor, _adder, _unscale>>

\* No RechunkH5 and no web handler at work.
NoTool == [stage |-> "none"]

\* The arguments of ResourceDataset.__init__ that name attributes, with
\* the attributes of the dataset it was given.
AttrArg(scale_attr, add_attr, attrs) ==
    [scale_attr |-> scale_attr, add_attr |-> add_attr, attrs |-> attrs]

\* No accessor (a ResourceDataset built by the caller), no call.
NoRes == [time_index |-> 0, meta |-> 0, _unscale |-> FALSE, _shapes |-> FALSE,
          _i |-> 0, h5 |-> "none", closes |-> 0, block |-> "none",
          exc |-> "none", raised |-> "none"]

NoCall == [stage |-> "idle", name |-> "", ds_slice |-> <<>>, handlers |-> <<>>,
           via |-> "none", warned |-> FALSE, args |-> <<>>,
           out |-> NoArr, err |-> "none", msg |-> "", err_ds |-> "",
           err_slices |-> <<>>, gid |-> <<>>, yielded |-> <<>>]

NoErr == [type |-> "none", ds |-> "", slices |-> <<>>, cause |-> "", shapes |-> {}]

\* What the backing store may raise from a read.
StoreErrors == {"OSError", "RuntimeError"}

\* ---------------------------------------------------------------- requests
AxisInts(n) == {IntE(i) : i \in 0..(n - 1)}
AxisLists(n, m) == {ListE(l) : l \in SeqsUpTo(0..(n - 1), m)}
\* Ranges requested on an axis of length n: all of it, an open-ended tail,
\* a proper in-bounds range, a stepped range, and ranges whose stop lies
\* beyond the axis or is negative or whose start is negative.
AxisSlices(n) ==
    { FullSlice,
      SliceE(Some(1), None, None),
      SliceE(Some(0), Some(n - 1), None),
      SliceE(None, None, Some(2)),
      SliceE(None, Some(n + 1), None),
      SliceE(None, Some(-1), None),
      SliceE(Some(-2), Some(n - 1), None) }

AxisEntries(n, m) == AxisInts(n) \cup AxisSlices(n) \cup AxisLists(n, m)

\* Keys with an index list on each of the axes a and b of a dataset of the
\* given shape and an integer or a range on the other axes (parallel fancy
\* indexing); n is the number of entries of the key.
MultiListKeys(shape, a, b, n) ==
    {k \in [1..n -> UNION {AxisEntries(shape[i], MaxLen2) : i \in 1..n}] :
        \A i \in 1..n :
            IF i \in {a, b} THEN k[i] \in AxisLists(shape[i], MaxLen2)
            ELSE k[i] \in AxisInts(shape[i]) \cup AxisSlices(shape[i])}

\* The slice tuples requested of a dataset of the given shape (after
\* parse_slice): one entry per axis, or fewer. A 1-D and a 2-D dataset are
\* asked for every combination of entries, a 3-D dataset for the keys with
\* index lists on two of its axes.
Requests(shape) ==
    IF Len(shape) = 1
    THEN {<<e>> : e \in AxisEntries(shape[1], MaxLen)}
    ELSE IF Len(shape) = 2
    THEN {<<e>> : e \in AxisEntries(shape[1], MaxLen2)}
         \cup {<<e1, e2>> : e1 \in AxisEntries(shape[1], MaxLen2),
                            e2 \in AxisEntries(shape[2], MaxLen2)}
    ELSE MultiListKeys(shape, 1, 2, 2) \cup MultiListKeys(shape, 1, 2, 3)
         \cup MultiListKeys(shape, 1, 3, 3) \cup MultiListKeys(shape, 2, 3, 3)

\* ------------------------------------------------------------------ actions
Init ==
    /\ \E d \in Datasets, u \in BOOLEAN :
          LET w == __init__(d, <<"scale_factor">>, <<"add_offset">>, u)
          IN  /\ _ds = d
              /\ _scale_factor = w.scale_factor
              /\ _adder = w.adder
              /\ _unscale = w.unscale
              /\ unscale_arg = u
              /\ attr_arg = AttrArg(<<"scale_factor">>, <<"add_offset">>, d.attrs)
    /\ memo = NoMemo
    /\ order = <<>>
    /\ res = NoRes
    /\ call = NoCall
    /\ rechunk = NoTool
    /\ web = NoTool
    /\ pc = "idle"
    /\ ds_slice = <<>>
    /\ path = "none"
    /\ plan = <<>>
    /\ sort_idx = <<>>
    /\ start = 0
    /\ out = NoArr
    /\ reads = <<>>
    /\ result = NoArr
    /\ err = NoErr

\* The call raises before any read.
RaiseEarly(s, e) ==
    /\ pc' = "raised"
    /\ ds_slice' = s
    /\ path' = "none"
    /\ plan' = <<>>
    /\ sort_idx' = <<>>
    /\ start' = 0
    /\ out' = NoArr
    /\ reads' = <<>>
    /\ result' = NoArr
    /\ err' = e
    /\ UNCHANGED <<wrapper, history>>

\* The call goes on to its reads.
StartReads(s, br, pl, si, o) ==
    /\ pc' = "reading"
    /\ ds_slice' = s
    /\ path' = br
    /\ plan' = pl
    /\ sort_idx' = si
    /\ start' = 0
    /\ out' = o
    /\ reads' = <<>>
    /\ result' = NoArr
    /\ err' = NoErr
    /\ UNCHANGED <<wrapper, history>>

\* Fault: a request without an index list read twice.
DirectPlan_Twice(s) == <<s, s>>

\* The plan of a request without an index list (lines 552-553): the one
\* call of _extract_ds_slice.
DirectPlan(s) == <<s>>

\* ResourceDataset.__getitem__ / _get_ds_slice up to the first read of the
\* h5py dataset: the slice is checked and the reads are planned. p is the
\* argsort of the list entry on the single-list path.
_get_ds_slice(s, p) ==
    /\ LET chk == _check_slice(s)
           shp == _get_out_arr_shape(_ds.shape, s)
           lp == ListSlicePlan(s, _ds.chunks, p)
           buf == Zeros(shp.shape, "int")
           ValueError == [NoErr EXCEPT !.type = "ValueError"]
       IN  IF chk.raise
           THEN RaiseEarly(s, [NoErr EXCEPT !.type = "IndexError",
                                            !.shapes = chk.shapes])
           ELSE IF chk.list_len = None
           THEN StartReads(s, "direct", DirectPlan(s), <<>>, NoArr)
           ELSE IF chk.multi_list
           THEN IF shp.raise THEN RaiseEarly(s, ValueError)
                ELSE StartReads(s, "multi",
                                Zip(_make_list_slices(s, chk.list_len[1])),
                                <<>>, buf)
           ELSE IF lp.list_len = None
           THEN StartReads(s, "list", <<s>>, lp.sort_idx, NoArr)
           ELSE IF shp.raise THEN RaiseEarly(s, ValueError)
           ELSE StartReads(s, "split",
                           Zip(_make_list_slices(lp.out_slices, lp.list_len[1])),
                           lp.sort_idx, buf)

\* The permutations np.argsort may return for the request's list entry (a
\* request without exactly one list entry sorts nothing).
SortChoices(s) ==
    LET lists == {a \in DOMAIN s : IsListLike(s[a])}
    IN  IF Cardinality(lists) = 1 /\ _ds.chunks # None
        THEN ArgSorts(SortKeys(s[CHOOSE a \in lists : TRUE]))
        ELSE {<<>>}

\* ResourceDataset.__getitem__ is called with a slice tuple.
__getitem__ ==
    /\ pc = "idle"
    /\ \E s \in Requests(_ds.shape) : \E p \in SortChoices(s) : _get_ds_slice(s, p)

\* The array of the split path put back in the caller's order (line 422),
\* and what __getitem__ returns once the last read is in: that array,
\* unscaled if the wrapper unscales (lines 555-558).
Reordered(o) == IF path = "split" THEN ArrGet(o, sort_idx) ELSE o

Finish(o) ==
    IF _unscale THEN _unscale_data(Reordered(o), _scale_factor, _adder)
    ELSE Reordered(o)

\* Fault: a get that switches unscaling off for the calls that follow.
KeepsWrapper_ClearsUnscale ==
    /\ _unscale' = FALSE
    /\ UNCHANGED <<_ds, _scale_factor, _adder>>

\* No method of ResourceDataset assigns a field of the wrapper after
\* __init__: a get leaves _ds, _scale_factor, _adder and _unscale as they are.
KeepsWrapper == UNCHANGED wrapper

\* One successful read of the h5py dataset inside __getitem__, with what the
\* caller does with it: _extract_ds_slice, the assignment into the output
\* array, and after the last read the return.
Read ==
    /\ pc = "reading"
    /\ LET s == plan[Len(reads) + 1]
           ks == DsSliceKeys(s)
           arr == _extract_ds_slice(_ds, s)
           last == Len(reads) + 1 = Len(plan)
           os == _get_out_arr_slice(s, start)
           fits == CanBroadcast(arr.shape, KeyView(out.shape, os.out_slice).shape)
           filled == IF path \in {"split", "multi"}
                     THEN ArrSet(out, os.out_slice, arr) ELSE arr
           logged == Append(reads, [slices |-> ks.slices, idx_slice |-> ks.idx_slice,
                                    fancy |-> IF NeedsIdx(ks.idx_slice) THEN 1 ELSE 0,
                                    from |-> s, ok |-> TRUE, exc |-> ""])
       IN  /\ reads' = logged
           /\ IF path \in {"split", "multi"} /\ ~fits
              THEN /\ pc' = "raised"
                   /\ err' = [NoErr EXCEPT !.type = "ValueError"]
                   /\ result' = NoArr
                   /\ out' = NoArr
                   /\ start' = start
              ELSE IF last
              THEN /\ pc' = "done"
                   /\ err' = NoErr
                   /\ result' = Finish(filled)
                   /\ out' = Reordered(filled)
                   /\ start' = start
              ELSE /\ pc' = "reading"
                   /\ err' = NoErr
                   /\ result' = NoArr
                   /\ out' = filled
                   /\ start' = os.stop
    /\ KeepsWrapper
    /\ UNCHANGED <<ds_slice, path, plan, sort_idx, history>>

\* Fault: a failed read whose exception leaves __getitem__ as it is, not
\* wrapped in a ResourceRuntimeError.
ReadFail_Bare(e) ==
    /\ pc = "reading"
    /\ LET s == plan[Len(reads) + 1]
           ks == DsSliceKeys(s)
       IN  reads' = Append(reads, [slices |-> ks.slices, idx_slice |-> ks.idx_slice,
                                   fancy |-> 0, from |-> s, ok |-> FALSE,
                                   exc |-> e])
    /\ err' = [NoErr EXCEPT !.type = e]
    /\ pc' = "raised"
    /\ result' = NoArr
    /\ out' = NoArr
    /\ UNCHANGED <<wrapper, ds_slice, path, plan, sort_idx, start, history>>

\* Fault: a failed read after which the call returns the output array as
\* far as the earlier reads filled it.
ReadFail_Partial(e) ==
    /\ pc = "reading"
    /\ LET s == plan[Len(reads) + 1]
           ks == DsSliceKeys(s)
       IN  reads' = Append(reads, [slices |-> ks.slices, idx_slice |-> ks.idx_slice,
                                   fancy |-> 0, from |-> s, ok |-> FALSE,
                                   exc |-> e])
    /\ err' = NoErr
    /\ pc' = "done"
    /\ result' = Finish(out)
    /\ out' = out
    /\ UNCHANGED <<wrapper, ds_slice, path, plan, sort_idx, start, history>>

\* A read of the h5py dataset that raises e: _extract_ds_slice raises
\* ResourceRuntimeError from e and __getitem__ ends.
ReadFail(e) ==
    /\ pc = "reading"
    /\ LET s == plan[Len(reads) + 1]
           ks == DsSliceKeys(s)
       IN  /\ reads' = Append(reads, [slices |-> ks.slices, idx_slice |-> ks.idx_slice,
                                       fancy |-> 0, from |-> s, ok |-> FALSE,
                                       exc |-> e])
           /\ err' = [NoErr EXCEPT !.type = "ResourceRuntimeError",
                                   !.ds = _ds.name, !.slices = ks.slices,
                                   !.cause = e]
    /\ pc' = "raised"
    /\ result' = NoArr
    /\ out' = NoArr
    /\ UNCHANGED <<wrapper, ds_slice, path, plan, sort_idx, start, history>>

\* __getitem__ is over: the caller has the array or the exception, and the
\* locals of the call are gone.
Return ==
    /\ pc \in {"done", "raised"}
    /\ pc' = "idle"
    /\ ds_slice' = <<>>
    /\ path' = "none"
    /\ plan' = <<>>
    /\ sort_idx' = <<>>
    /\ start' = 0
    /\ out' = NoArr
    /\ reads' = <<>>
    /\ result' = NoArr
    /\ err' = NoErr
    /\ UNCHANGED <<wrapper, history>>

Next ==
    \/ __getitem__
    \/ Read
    \/ \E e \in StoreErrors : ReadFail(e)
    \/ Return

Spec == Init /\ [][Next]_vars

\* ------------------------------------------------------ repeated requests
\* The entries of the requests that are made again and again: an integer,
\* ranges, and index lists (sorted, unsorted, with a repeated index).
IdemEntries(n) ==
    { IntE(0), FullSlice, SliceE(Some(1), None, None),
      ListE(<<0>>), ListE(<<n - 1, 0>>), ListE(<<1, 1>>) }

IdemRequests(shape) ==
    IF Len(shape) = 1
    THEN {<<e>> : e \in IdemEntries(shape[1]) \cup {ListE(<<shape[1] - 1, 0, 0>>)}}
    ELSE IF Len(shape) = 2
    THEN {<<e1, e2>> : e1 \in IdemEntries(shape[1]), e2 \in IdemEntries(shape[2])}
    ELSE { <<ListE(<<1, 0>>), FullSlice, ListE(<<0, 1>>)>>,
           <<IntE(0), ListE(<<0, 1>>), ListE(<<1, 1>>)>> }

\* ResourceDataset.__getitem__ called with one of these requests.
GetAgain ==
    /\ pc = "idle"
    /\ \E s \in IdemRequests(_ds.shape) : \E p \in SortChoices(s) : _get_ds_slice(s, p)

\* The caller keeps the array a call returned, with the request it made.
Remember ==
    /\ pc = "done"
    /\ memo' = [set |-> TRUE, ds_slice |-> ds_slice, result |-> result]
    /\ memo' # memo
    /\ UNCHANGED <<wrapper, pc, ds_slice, path, plan, sort_idx, start, out,
                   reads, result, err, unscale_arg, attr_arg, order, accessor, tools>>

NextIdem ==
    \/ GetAgain
    \/ Read
    \/ \E e \in StoreErrors : ReadFail(e)
    \/ Remember
    \/ Return

SpecIdem == Init /\ [][NextIdem]_vars

\* ------------------------------------------------------------- properties
\* ------------------------------------------------- notions the claims use
\* The axes of a slice tuple that carry an index list.
ListAxes(s) == {a \in DOMAIN s : IsListLike(s[a])}

\* The decoding of a stored value the wrapper's fields call for.
Decoded(v) ==
    IF ~_unscale THEN v
    ELSE IF _adder # 0 THEN RatAdd(RatMul(v, _scale_factor), _adder)
    ELSE RatDiv(v, _scale_factor)

\* A range whose bounds, where given, lie within an axis of length n.
RangeInBounds(e, n) ==
    /\ e.start # None => e.start[1] \in 0..n
    /\ e.stop # None => e.stop[1] \in 0..n

RangesInBounds(shape, s) ==
    \A a \in DOMAIN s : IsSlice(s[a]) => RangeInBounds(s[a], shape[a])

\* The positions of an axis of length n that an integer or a range selects.
Selected(e, n) == {AxisSel(e, n)[j] : j \in DOMAIN AxisSel(e, n)}

\* The number of adjacent pairs of the sorted list more than c apart: the
\* entries whose next larger entry is more than c away.
Gaps(l, c) ==
    LET S == {l[j] : j \in DOMAIN l}
    IN  Cardinality({u \in S : /\ \E w \in S : w > u
                               /\ \A w \in S : w > u => w - u > c})

\* The single list axis of the current request and its list.
TheListAxis == CHOOSE a \in ListAxes(ds_slice) : TRUE
TheList == ds_slice[TheListAxis].idx

\* The position, among the dimensions of the result, of the dimension that
\* axis a of the request gives (integer axes give none).
ResultDim(s, a) == Cardinality({b \in 1..a : ~IsInt(s[b])})

\* C1: on a chunked dataset, a request with exactly one index list L of
\* in-bounds indices (any order, duplicates allowed) returns, at position k
\* along the list's axis, the stored (decoded) values at index L[k]: the
\* result has len(L) positions along that axis, every entry at position k
\* is the value stored at a position the request selects whose list-axis
\* coordinate is L[k]; and when the ranges of the other axes lie within
\* their axes the result is exactly the requested selection, in the caller's
\* order, whether the sorted list was split into several reads or not.
C1_ListOrderPreserved ==
    (pc = "done" /\ _ds.chunks # None /\ Cardinality(ListAxes(ds_slice)) = 1)
    => LET fk == FullKey(ds_slice, Len(_ds.shape))
           d == ResultDim(fk, TheListAxis)
           v == KeyView(_ds.shape, ds_slice)
       IN  IF RangesInBounds(_ds.shape, ds_slice)
           THEN /\ result.shape = v.shape
                /\ \A r \in Indices(v.shape) :
                      result.data[r] = Decoded(RatOfInt(RawAt(_ds, v.src[r])))
           ELSE /\ result.shape[d] = Len(TheList)
                /\ \A r \in Indices(result.shape) :
                      \E x \in Indices(_ds.shape) :
                         /\ x[TheListAxis] = TheList[r[d] + 1]
                         /\ \A a \in DOMAIN fk : a # TheListAxis =>
                               x[a] \in Selected(fk[a], _ds.shape[a])
                         /\ result.data[r] = Decoded(RatOfInt(RawAt(_ds, x)))

\* C1 witness: the unsorted list [3, 0, 2] was read from a chunked 1-D
\* dataset in two reads and came back as [v3, v0, v2].
C1_Witness ==
    /\ pc = "done" /\ path = "split" /\ Len(reads) = 2
    /\ ds_slice = <<ListE(<<3, 0, 2>>)>>
    /\ result.data[<<0>>] = Decoded(RatOfInt(RawAt(_ds, <<3>>)))
    /\ result.data[<<1>>] = Decoded(RatOfInt(RawAt(_ds, <<0>>)))
    /\ result.data[<<2>>] = Decoded(RatOfInt(RawAt(_ds, <<2>>)))

\* C2: on the 2-D chunked dataset with scale_factor s # 1 and add_offset 0
\* (unscaling on), a request (range R within axis 0, index list L on axis
\* 1) returns a float array of shape len(R) x len(L) whose entry [i, j] is
\* raw[R[i], L[j]] / s.
C2_RangeListScaled ==
    (/\ pc = "done" /\ Len(_ds.shape) = 2 /\ _ds.chunks # None
     /\ _scale_factor # 1 /\ _adder = 0 /\ _unscale
     /\ Len(ds_slice) = 2 /\ IsSlice(ds_slice[1]) /\ IsListLike(ds_slice[2])
     /\ RangeInBounds(ds_slice[1], _ds.shape[1]))
    => LET R == RangeSeq(SliceIndices(ds_slice[1], _ds.shape[1]))
           L == ds_slice[2].idx
       IN  /\ result.shape = <<Len(R), Len(L)>>
           /\ result.dtype = "float32"
           /\ \A i \in 1..Len(R), j \in 1..Len(L) :
                 result.data[<<i - 1, j - 1>>] =
                     Norm(RawAt(_ds, <<R[i], L[j]>>), _scale_factor)

\* C2 witness: rows 0 .. NTime-2 and the sites [2, 0] of windspeed_100m
\* were returned divided by 10.
C2_Witness ==
    /\ pc = "done" /\ _ds.name = "windspeed_100m" /\ _unscale
    /\ ds_slice = <<SliceE(Some(0), Some(NTime - 1), None), ListE(<<2, 0>>)>>
    /\ result.shape = <<NTime - 1, 2>>
    /\ result.data[<<0, 0>>] = Norm(RawAt(_ds, <<0, 2>>), 10)

\* C3: for a single list axis of a chunked dataset with chunk extent c a
\* completed call has made 1 + (number of adjacent pairs of the sorted list
\* more than c apart) reads, and never more while it runs; no read spans two
\* requested indices more than c apart with nothing requested in between; a
\* gap equal to c does not split; an unchunked dataset gets a single read.
C3_ReadCount ==
    (pc \in {"reading", "done", "raised"} /\ Cardinality(ListAxes(ds_slice)) = 1)
    => LET n == IF _ds.chunks = None THEN 1
                ELSE 1 + Gaps(TheList, _ds.chunks[1][TheListAxis])
       IN  /\ Len(reads) <= n
           /\ pc = "done" => Len(reads) = n
           /\ _ds.chunks # None =>
                \A k \in DOMAIN reads :
                   LET rd == reads[k].slices[TheListAxis]
                       inside == {TheList[j] : j \in DOMAIN TheList}
                                   \cap (rd.start[1] .. (rd.stop[1] - 1))
                   IN  \A u \in inside : u + 1 < rd.stop[1] =>
                           \E w \in inside : w > u /\ w - u <= _ds.chunks[1][TheListAxis]

\* C3 witness: [3, 0, 1] on a dataset with chunk extent 1 took two reads (the
\* gap of 1 between 0 and 1 does not split, the gap of 2 does).
C3_Witness ==
    /\ pc = "done" /\ _ds.chunks = Some(<<1>>)
    /\ ds_slice = <<ListE(<<3, 0, 1>>)>>
    /\ Len(reads) = 2
    /\ reads[1].slices = <<SliceE(Some(0), Some(2), None)>>
    /\ reads[2].slices = <<SliceE(Some(3), Some(4), None)>>

\* C4: every read addresses the h5py dataset with an integer or a range on
\* each axis, never with an index list: a list sub-slice is replaced by the
\* range min .. max+1 and the local index (list - min), which is applied
\* at most once, after the read.
C4_StoreAddressing ==
    \A k \in DOMAIN reads :
       LET rd == reads[k]
           lists == {a \in DOMAIN rd.from : IsListLike(rd.from[a])}
       IN  /\ \A a \in DOMAIN rd.slices : rd.slices[a].k \in {"int", "slice"}
           /\ \A a \in lists :
                /\ rd.slices[a] = SliceE(Some(SeqMin(rd.from[a].idx)),
                                         Some(SeqMax(rd.from[a].idx) + 1), None)
                /\ rd.idx_slice[ResultDim(rd.from, a)] =
                      ListE([j \in DOMAIN rd.from[a].idx |->
                                rd.from[a].idx[j] - SeqMin(rd.from[a].idx)])
           /\ \A a \in DOMAIN rd.from : ~IsListLike(rd.from[a]) =>
                 rd.slices[a] = rd.from[a]
           /\ rd.fancy <= 1
           /\ rd.fancy = 1 <=> (rd.ok /\ lists # {})

\* C4 witness: a read of an unsorted list with a duplicate was issued as the
\* range 1 .. 4 with the local index [2, 0, 2].
C4_Witness ==
    /\ Len(reads) = 1 /\ reads[1].ok
    /\ reads[1].from = <<ListE(<<3, 1, 3>>)>>
    /\ reads[1].slices = <<SliceE(Some(1), Some(4), None)>>
    /\ reads[1].idx_slice = <<ListE(<<2, 0, 2>>)>>
    /\ reads[1].fancy = 1

\* C5: a request without an index list (integers and ranges only) is served
\* by exactly one read of the h5py dataset, whatever the chunking.
C5_NoListOneRead ==
    (pc \in {"reading", "done", "raised"} /\ ListAxes(ds_slice) = {})
    => /\ Len(plan) = 1
       /\ Len(reads) = IF pc = "reading" THEN 0 ELSE 1
       /\ \A k \in DOMAIN reads : reads[k].slices = ds_slice

\* C5 witness: a range request on a chunked dataset was answered after one
\* read.
C5_Witness ==
    /\ pc = "done" /\ _ds.chunks # None /\ Len(_ds.shape) = 2
    /\ ds_slice = <<SliceE(Some(1), None, None), FullSlice>>
    /\ Len(reads) = 1
    /\ result.shape = <<NTime - 1, NSite - 1>>

\* The common length of the index lists of a request with several of them.
ListLen(s) == LenE(s[CHOOSE a \in ListAxes(s) : TRUE])

\* The first axis of a request that carries an index list.
FirstListAxis(s) == CHOOSE a \in ListAxes(s) : \A b \in ListAxes(s) : a <= b

\* The dimension of the output array of the multi-list path that axis a of
\* the (padded) request fills: ranges each give one, the lists share the one
\* at the first list's place, integers give none.
MultiDim(s, a) ==
    IF IsListLike(s[a])
    THEN Cardinality({b \in 1..FirstListAxis(s) : IsSlice(s[b])}) + 1
    ELSE Cardinality({b \in 1..a : IsSlice(s[b])})
         + (IF FirstListAxis(s) < a THEN 1 ELSE 0)

\* C6: a request with index lists of a common length n on two or more axes
\* is served by exactly n reads; the k-th read addresses the h5py dataset at
\* the k-th element of every list, the entries of the other axes repeated
\* unchanged; nothing is re-sorted; and (the ranges of the other axes lying
\* within their axes) position k of the result holds
\* raw[L0[k], L1[k], ...].
C6_MultiListZip ==
    (/\ pc \in {"reading", "done", "raised"}
     /\ Cardinality(ListAxes(ds_slice)) >= 2
     /\ Cardinality({LenE(ds_slice[a]) : a \in ListAxes(ds_slice)}) = 1)
    => LET n == ListLen(ds_slice)
           fk == FullKey(ds_slice, Len(_ds.shape))
       IN  /\ Len(reads) <= n
           /\ pc = "done" => Len(reads) = n
           /\ \A k \in DOMAIN reads : \A a \in DOMAIN ds_slice :
                 reads[k].slices[a] =
                     IF a \in ListAxes(ds_slice) THEN IntE(ds_slice[a].idx[k])
                     ELSE ds_slice[a]
           /\ (pc = "done" /\ RangesInBounds(_ds.shape, ds_slice)) =>
                /\ Len(result.shape) =
                      1 + Cardinality({a \in DOMAIN fk : IsSlice(fk[a])})
                /\ \A a \in DOMAIN fk : ~IsInt(fk[a]) =>
                      result.shape[MultiDim(fk, a)] =
                          IF IsListLike(fk[a]) THEN n
                          ELSE Len(AxisSel(fk[a], _ds.shape[a]))
                /\ \A r \in Indices(result.shape) :
                      result.data[r] =
                          Decoded(RatOfInt(RawAt(_ds,
                              [a \in DOMAIN fk |->
                                  IF IsInt(fk[a]) THEN fk[a].idx[1]
                                  ELSE AxisSel(fk[a], _ds.shape[a])
                                           [r[MultiDim(fk, a)] + 1]])))

\* C6 witness: the lists [1, 0] on axis 0 and [0, 1] on axis 2 of the 3-D
\* dataset were read pairwise, in the request's order, in two reads.
C6_Witness ==
    /\ pc = "done" /\ path = "multi" /\ _ds.name = "profile"
    /\ ds_slice = <<ListE(<<1, 0>>), FullSlice, ListE(<<0, 1>>)>>
    /\ Len(reads) = 2
    /\ reads[1].slices = <<IntE(1), FullSlice, IntE(0)>>
    /\ reads[2].slices = <<IntE(0), FullSlice, IntE(1)>>
    /\ result.data[<<0, 1>>] = RatOfInt(RawAt(_ds, <<1, 1, 0>>))
    /\ result.data[<<1, 0>>] = RatOfInt(RawAt(_ds, <<0, 0, 1>>))

\* C7: a request whose index lists have different lengths is rejected with
\* the shape-mismatch IndexError that names the lengths, before any read of
\* the h5py dataset; nothing is returned.
C7_LengthMismatch ==
    (/\ pc # "idle"
     /\ Cardinality({LenE(ds_slice[a]) : a \in ListAxes(ds_slice)}) > 1)
    => /\ pc = "raised"
       /\ err.type = "IndexError"
       /\ err.shapes = {LenE(ds_slice[a]) : a \in ListAxes(ds_slice)}
       /\ reads = <<>>
       /\ plan = <<>>
       /\ result = NoArr
       /\ out = NoArr

\* C7 witness: lists of lengths 1 and 2 were rejected without a read.
C7_Witness ==
    /\ pc = "raised" /\ err.type = "IndexError" /\ err.shapes = {1, 2}
    /\ ds_slice = <<ListE(<<0>>), ListE(<<1, 0>>)>>
    /\ reads = <<>>

\* C8: what a completed call returns is the decoding of the native array it
\* read: the stored values unchanged, in the stored dtype, when scale_factor
\* is 1 and add_offset is 0 or when unscaling was switched off; otherwise
\* float32 values r * scale_factor + add_offset when add_offset # 0 and
\* r / scale_factor when add_offset = 0.
C8_Decode ==
    pc = "done"
    => /\ out.dtype = "int"
       /\ IF (_scale_factor = 1 /\ _adder = 0) \/ ~unscale_arg
          THEN result = out /\ result.dtype = "int"
          ELSE /\ result.shape = out.shape
               /\ result.dtype = "float32"
               /\ DOMAIN result.data = DOMAIN out.data
               /\ \A r \in DOMAIN out.data :
                     result.data[r] =
                         IF _adder # 0
                         THEN RatAdd(RatMul(out.data[r], _scale_factor), _adder)
                         ELSE RatDiv(out.data[r], _scale_factor)

\* C8 witness: the stored 120 of a dataset with scale_factor 10 and no
\* add_offset was returned as 12.
C8_Witness ==
    /\ pc = "done" /\ _scale_factor = 10 /\ _adder = 0 /\ unscale_arg
    /\ ds_slice = <<IntE(0), FullSlice>>
    /\ out.data[<<0>>] = <<120, 1>>
    /\ result.data[<<0>>] = <<12, 1>>
    /\ result.dtype = "float32"

\* C9: reads are idempotent and leave the wrapper as it is: no step changes
\* the wrapped dataset, scale_factor, add_offset or the unscale flag, and a
\* call that repeats an earlier request on the unchanged dataset returns
\* what the earlier call returned.
C9_Idempotent ==
    [][/\ wrapper' = wrapper
       /\ (pc' = "done" /\ memo.set /\ memo.ds_slice = ds_slice')
              => result' = memo.result]_vars

\* C9 witness: a split, unscaled request was answered a second time with
\* the array of the first time.
C9_Witness ==
    /\ pc = "done" /\ memo.set /\ memo.ds_slice = ds_slice
    /\ memo.result = result
    /\ path = "split" /\ _unscale /\ Len(reads) = 2

\* C10: a read of the h5py dataset that raises ends the call: the failed
\* read is the last one attempted (it is not retried and no later read is
\* issued), and the call raises one ResourceRuntimeError that carries the
\* dataset, the slice tuple of the failed read and, as its cause, the
\* original exception; nothing is returned.
C10_StoreFailure ==
    /\ \A k \in DOMAIN reads : ~reads[k].ok =>
          /\ k = Len(reads)
          /\ pc = "raised"
          /\ err.type = "ResourceRuntimeError"
          /\ err.ds = _ds.name
          /\ err.slices = reads[k].slices
          /\ err.cause = reads[k].exc
          /\ err.cause \in StoreErrors
          /\ result = NoArr
    /\ err.type = "ResourceRuntimeError" =>
          (reads # <<>> /\ ~reads[Len(reads)].ok)
    /\ err.type \notin {"none", "IndexError", "ValueError", "ResourceRuntimeError"} => FALSE

\* C10 witness: the second read of a split request failed with an OSError
\* and the call raised, the error naming the second read's slice.
C10_Witness ==
    /\ pc = "raised" /\ path = "split" /\ Len(reads) = 2 /\ Len(plan) = 3
    /\ ds_slice = <<ListE(<<4, 0, 2>>)>>
    /\ reads[1].ok /\ ~reads[2].ok
    /\ err.type = "ResourceRuntimeError" /\ err.cause = "OSError"
    /\ err.slices = reads[2].slices

\* C11: a request is all-or-nothing: an array is returned only by a call
\* all of whose planned reads succeeded, and in a plan of several reads (a
\* split single-list plan or a multi-list plan) a read that fails makes the
\* call raise with nothing returned, the part of the output array filled by
\* the earlier reads included.
C11_AllOrNothing ==
    /\ result # NoArr =>
          /\ pc = "done"
          /\ Len(reads) = Len(plan)
          /\ \A k \in DOMAIN reads : reads[k].ok
    /\ pc = "done" => result.dtype \in {"int", "float32"}
    /\ (Len(plan) > 1 /\ \E k \in DOMAIN reads : ~reads[k].ok) =>
          /\ pc = "raised"
          /\ result = NoArr
          /\ out = NoArr

\* C11 witness: the second of the two reads of a multi-list plan failed
\* after the first had filled its part, and the call raised with nothing
\* returned.
C11_Witness ==
    /\ pc = "raised" /\ path = "multi" /\ Len(plan) = 2
    /\ Len(reads) = 2 /\ reads[1].ok /\ ~reads[2].ok
    /\ result = NoArr /\ out = NoArr

\* ------------------------------------- slice tuples shorter than the rank
\* The datasets asked with slice tuples that name fewer axes than they have:
\* a 2-D dataset whose leading axis is long enough for a split, and the 3-D
\* dataset.
PadDatasets ==
    { [name |-> "ghi", shape |-> <<NSite, 2>>,
       chunks |-> Some(<<CSite, 1>>), attrs |-> AttrsScale10, base |-> RawBase],
      [name |-> "profile", shape |-> <<NLevel, 2, 2>>,
       chunks |-> Some(<<1, 1, 1>>), attrs |-> AttrsNone, base |-> RawBase + 1] }

\* Slice tuples with fewer entries than the rank.
PadShort(shape) ==
    LET n == shape[1]
        first == { IntE(0), SliceE(Some(1), None, None),
                   SliceE(None, Some(n + 1), None),
                   ListE(<<0>>), ListE(<<1, 1>>), ListE(<<n - 1, 0>>) }
    IN  IF Len(shape) = 2
        THEN {<<>>} \cup {<<e>> : e \in first \cup {ListE(<<n - 1, 0, 1>>)}}
        ELSE {<<e>> : e \in first}
             \cup {<<IntE(0), e>> : e \in {SliceE(Some(1), None, None), ListE(<<1, 0>>)}}
             \cup {<<ListE(<<1, 0>>), e>> : e \in {IntE(1), FullSlice, ListE(<<0, 1>>),
                                                  ListE(<<0>>)}}

\* The short tuples and the same tuples with slice(None) for every axis
\* they do not name.
PadRequests(shape) ==
    PadShort(shape) \cup {FullKey(k, Len(shape)) : k \in PadShort(shape)}

\* ResourceDataset.__init__ on one of the given datasets.
InitOn(dsets) ==
    /\ \E d \in dsets, u \in BOOLEAN :
          LET w == __init__(d, <<"scale_factor">>, <<"add_offset">>, u)
          IN  /\ _ds = d
              /\ _scale_factor = w.scale_factor
              /\ _adder = w.adder
              /\ _unscale = w.unscale
              /\ unscale_arg = u
              /\ attr_arg = AttrArg(<<"scale_factor">>, <<"add_offset">>, d.attrs)
    /\ memo = NoMemo
    /\ order = <<>>
    /\ res = NoRes
    /\ call = NoCall
    /\ rechunk = NoTool
    /\ web = NoTool
    /\ pc = "idle"
    /\ ds_slice = <<>>
    /\ path = "none"
    /\ plan = <<>>
    /\ sort_idx = <<>>
    /\ start = 0
    /\ out = NoArr
    /\ reads = <<>>
    /\ result = NoArr
    /\ err = NoErr

InitPad == InitOn(PadDatasets)

\* ResourceDataset.__getitem__ called with a short or a padded tuple.
GetPad ==
    /\ pc = "idle"
    /\ \E s \in PadRequests(_ds.shape) : \E p \in SortChoices(s) : _get_ds_slice(s, p)

NextPad ==
    \/ GetPad
    \/ Read
    \/ \E e \in StoreErrors : ReadFail(e)
    \/ Remember
    \/ Return

SpecPad == InitPad /\ [][NextPad]_vars

\* C18: a slice tuple with fewer entries than the dataset's rank is answered
\* as the tuple extended with slice(None) on every missing trailing axis: of
\* two requests that differ only by such padding, when one has returned an
\* array the other (its reads succeeding) returns the same array, on the
\* no-list path, the single-list path (split or not) and the multi-list
\* path.
C18_TrailingAxes ==
    [][(/\ pc' \in {"done", "raised"}
        /\ err'.type # "ResourceRuntimeError"
        /\ memo.set
        /\ memo.ds_slice # ds_slice'
        /\ FullKey(memo.ds_slice, Len(_ds.shape)) = FullKey(ds_slice', Len(_ds.shape)))
       => (pc' = "done" /\ result' = memo.result)]_vars

\* C18 witness: a split list request that names the first axis only has
\* returned the array of the same request with slice(None) on the second.
C18_Witness ==
    /\ pc = "done" /\ path = "split" /\ Len(reads) = 2
    /\ ds_slice = <<ListE(<<NSite - 1, 0, 1>>)>>
    /\ memo.set /\ memo.ds_slice = <<ListE(<<NSite - 1, 0, 1>>), FullSlice>>
    /\ result = memo.result
    /\ result.shape = <<3, 2>>

\* --------------------------------------- reads completing in any order
\* The start of the k-th read's region of the output array, from the plan
\* alone: the stop of the read before it (the loop's start = stop).
RECURSIVE PlanStart(_, _)
PlanStart(pl, k) ==
    IF k = 1 THEN 0
    ELSE _get_out_arr_slice(pl[k - 1], PlanStart(pl, k - 1)).stop

\* The positions of the output array of the given shape that the k-th read
\* of the plan fills.
Region(shape, pl, k) ==
    LET v == KeyView(shape, _get_out_arr_slice(pl[k], PlanStart(pl, k)).out_slice)
    IN  {v.src[r] : r \in Indices(v.shape)}

\* The requests whose reads are let complete in any order: split lists,
\* parallel lists, and a list next to an integer or a range.
AnyRequests(shape) ==
    LET n == shape[1]
    IN  IF Len(shape) = 1
        THEN { <<ListE(<<n - 1, 0, 0>>)>>, <<ListE(<<0, n - 1, 1>>)>>,
               <<ListE(<<n - 1, 0, 2>>)>> }
        ELSE IF Len(shape) = 2
        THEN { <<FullSlice, ListE(<<shape[2] - 1, 0>>)>>,
               <<IntE(1), ListE(<<0, shape[2] - 1>>)>>,
               <<SliceE(Some(-2), Some(n - 1), None), ListE(<<shape[2] - 1, 0>>)>>,
               <<ListE(<<0, 1>>), ListE(<<1, 0>>)>> }
        ELSE { <<ListE(<<1, 0>>), FullSlice, ListE(<<0, 1>>)>>,
               <<SliceE(Some(1), None, None), ListE(<<0, 1>>), ListE(<<1, 1>>)>>,
               <<ListE(<<1, 0>>), ListE(<<0, 0>>)>> }

\* ResourceDataset.__getitem__ called with one of these requests.
GetAny ==
    /\ pc = "idle"
    /\ \E s \in AnyRequests(_ds.shape) : \E p \in SortChoices(s) : _get_ds_slice(s, p)

\* The body of the loops of _extract_list_slice and _extract_multi_list_slice
\* for the k-th element of the plan, run when that read completes, whichever
\* reads completed before it; after the last one the array is put in the
\* caller's order, unscaled and returned as in the sequential loop.
ReadAny(k) ==
    /\ pc = "reading"
    /\ path \in {"split", "multi"}
    /\ Len(order) = Len(reads)
    /\ k \in DOMAIN plan
    /\ \A j \in DOMAIN order : order[j] # k
    /\ LET s == plan[k]
           ks == DsSliceKeys(s)
           arr == _extract_ds_slice(_ds, s)
           last == Len(reads) + 1 = Len(plan)
           os == _get_out_arr_slice(s, PlanStart(plan, k))
           fits == CanBroadcast(arr.shape, KeyView(out.shape, os.out_slice).shape)
           filled == ArrSet(out, os.out_slice, arr)
       IN  /\ reads' = Append(reads, [slices |-> ks.slices, idx_slice |-> ks.idx_slice,
                                       fancy |-> IF NeedsIdx(ks.idx_slice) THEN 1 ELSE 0,
                                       from |-> s, ok |-> TRUE, exc |-> ""])
           /\ IF ~fits
              THEN /\ pc' = "raised"
                   /\ err' = [NoErr EXCEPT !.type = "ValueError"]
                   /\ result' = NoArr
                   /\ out' = NoArr
              ELSE IF last
              THEN /\ pc' = "done"
                   /\ err' = NoErr
                   /\ result' = Finish(filled)
                   /\ out' = Reordered(filled)
              ELSE /\ pc' = "reading"
                   /\ err' = NoErr
                   /\ result' = NoArr
                   /\ out' = filled
    /\ order' = Append(order, k)
    /\ UNCHANGED <<wrapper, ds_slice, path, plan, sort_idx, start, unscale_arg, attr_arg, memo,
                   accessor, tools>>

\* The sequential loop, for a call none of whose reads completed out of turn.
ReadInTurn == order = <<>> /\ Read

\* The call is over, as in Return.
ReturnAny ==
    /\ pc \in {"done", "raised"}
    /\ pc' = "idle"
    /\ ds_slice' = <<>>
    /\ path' = "none"
    /\ plan' = <<>>
    /\ sort_idx' = <<>>
    /\ start' = 0
    /\ out' = NoArr
    /\ reads' = <<>>
    /\ result' = NoArr
    /\ err' = NoErr
    /\ order' = <<>>
    /\ UNCHANGED <<wrapper, unscale_arg, attr_arg, memo, accessor, tools>>

NextAny ==
    \/ GetAny
    \/ ReadInTurn
    \/ \E k \in 1..MaxLen : ReadAny(k)
    \/ Remember
    \/ ReturnAny

SpecAnyOrder == Init /\ [][NextAny]_vars

\* C20: in a plan of several reads the region of the output array that
\* receives each read is fixed by the plan alone (the sequential loop's
\* start is the plan's), the regions of different reads are disjoint and
\* together cover the array; and a call whose reads complete in any order
\* returns the array the same request returned before, in particular what
\* the sequential order returns.
C20_OrderIndependent ==
    [][/\ (pc' = "reading" /\ path' \in {"split", "multi"}) =>
            /\ order' = <<>> => start' = PlanStart(plan', Len(reads') + 1)
            /\ \A j, k \in DOMAIN plan' :
                  j # k => Region(out'.shape, plan', j)
                             \cap Region(out'.shape, plan', k) = {}
            /\ UNION {Region(out'.shape, plan', k) : k \in DOMAIN plan'}
                  = Indices(out'.shape)
       /\ (pc' = "done" /\ memo.set /\ memo.ds_slice = ds_slice')
              => result' = memo.result]_vars

\* C20 witness: the three reads of a split request completed last to first
\* and the call returned the array the sequential call had returned.
C20_Witness ==
    /\ pc = "done" /\ path = "split" /\ order = <<3, 2, 1>>
    /\ memo.set /\ memo.ds_slice = ds_slice
    /\ result = memo.result
    /\ result.shape = <<3>>

(***************************************************************************)
(* Boolean masks (lines 171-210, 240-272, 385-407).  A mask is a list of   *)
(* booleans as long as the axis it indexes; masks without a true entry     *)
(* select nothing and, like empty lists, are not among the requests.       *)
(***************************************************************************)
MaskDatasets ==
    { [name |-> "dhi", shape |-> <<NTime, 2>>,
       chunks |-> Some(<<CTime, 1>>), attrs |-> AttrsScale10, base |-> RawBase],
      [name |-> "dni", shape |-> <<NTime, 2>>,
       chunks |-> None, attrs |-> AttrsNone, base |-> RawBase + 2],
      [name |-> "temperature_2m", shape |-> <<NTime>>,
       chunks |-> Some(<<CTime>>), attrs |-> AttrsScaleOffset, base |-> RawBase + 3] }

\* The masks over an axis of length n that select something.
Masks(n) == {m \in [1..n -> BOOLEAN] : \E j \in 1..n : m[j]}

\* Index lists for the second axis asked for together with the mask m:
\* one index, as many as m has true entries, as many as m has entries.
MaskLists(m, n2) ==
    { [j \in 1..k |-> (j - 1) % n2] : k \in {1, Len(MaskList(m)), Len(m)} }

\* The request with every mask replaced by the list of its true positions.
Normalize(s) ==
    [a \in DOMAIN s |-> IF IsMask(s[a]) THEN ListE(MaskList(s[a].idx)) ELSE s[a]]

MaskKeys(shape) ==
    IF Len(shape) = 1
    THEN {<<MaskE(m)>> : m \in Masks(shape[1])}
    ELSE UNION { {<<MaskE(m)>>, <<MaskE(m), IntE(1)>>, <<MaskE(m), FullSlice>>}
                 \cup {<<MaskE(m), ListE(l)>> : l \in MaskLists(m, shape[2])}
                 \cup {<<MaskE(m), MaskE(m2)>> : m2 \in Masks(shape[2])}
                 : m \in Masks(shape[1]) }
         \cup {<<e, MaskE(m2)>> : e \in {IntE(0), ListE(<<1, 0>>)},
                                  m2 \in Masks(shape[2])}

\* Requests with masks, and the same requests with index lists instead.
MaskRequests(shape) ==
    MaskKeys(shape) \cup {Normalize(k) : k \in MaskKeys(shape)}

InitMask == InitOn(MaskDatasets)

\* ResourceDataset.__getitem__ called with a mask or with its index list.
GetMask ==
    /\ pc = "idle"
    /\ \E s \in MaskRequests(_ds.shape) : \E p \in SortChoices(s) : _get_ds_slice(s, p)

NextMask ==
    \/ GetMask
    \/ Read
    \/ \E e \in StoreErrors : ReadFail(e)
    \/ Remember
    \/ Return

SpecMask == InitMask /\ [][NextMask]_vars

\* The request just answered has a mask and the remembered request is the
\* same one with index lists.
MaskOfMemo ==
    /\ memo.set
    /\ memo.ds_slice # ds_slice'
    /\ Normalize(ds_slice') = memo.ds_slice

\* C19: a boolean mask is treated as the ordered list of its true
\* positions before anything else: when the request with index lists has
\* returned an array, the request with the mask M in place of the list
\* [i : M[i]] (its reads succeeding) returns the same array, alone or with
\* an index list on another axis, on chunked and unchunked datasets.
C19_MaskAsList ==
    [][(/\ pc' \in {"done", "raised"}
        /\ err'.type # "ResourceRuntimeError"
        /\ MaskOfMemo)
       => (pc' = "done" /\ result' = memo.result)]_vars

\* What the code does keep of C19: a mask that is the request's only
\* list-like entry is answered as the list of its true positions.
MaskAloneAsList ==
    [][(/\ pc' \in {"done", "raised"}
        /\ err'.type # "ResourceRuntimeError"
        /\ MaskOfMemo
        /\ Cardinality({a \in DOMAIN ds_slice' : IsListLike(ds_slice'[a])}) = 1)
       => (pc' = "done" /\ result' = memo.result)]_vars

\* A mask alone has been answered with the array of its index list.
MaskAloneWitness ==
    /\ pc = "done"
    /\ memo.set
    /\ ds_slice = <<MaskE(<<TRUE, FALSE, TRUE>>), IntE(1)>>
    /\ memo.ds_slice = Normalize(ds_slice)
    /\ result = memo.result
    /\ result.shape = <<2>>

\* The failing request of C19: three rows by mask with two columns by list
\* is refused by the common-length check, IndexError, with no read made,
\* where rows [0, 2] with columns [0, 1] has returned two values.
MaskWithListRaises ==
    /\ pc = "raised"
    /\ err.type = "IndexError"
    /\ reads = <<>>
    /\ ds_slice = <<MaskE(<<TRUE, FALSE, TRUE>>), ListE(<<0, 1>>)>>
    /\ memo.set
    /\ memo.ds_slice = Normalize(ds_slice)
    /\ memo.result.shape = <<2>>

(***************************************************************************)
(* BaseResource (lines 586-1483): the accessor of one open file.  A        *)
(* request names a dataset and carries a slice tuple; __getitem__ picks    *)
(* the handler from the name, the handler builds a ResourceDataset with    *)
(* ResourceDataset.extract and gets the slice from it.  Dataset names are  *)
(* strings; NameChars gives their characters so that startswith, `in` and  *)
(* os.path.split are computed.                                             *)
(***************************************************************************)
NMeta == 2

Str_time_index == <<"t", "i", "m", "e", "_", "i", "n", "d", "e", "x">>
Str_meta == <<"m", "e", "t", "a">>
Str_coordinates == <<"c", "o", "o", "r", "d", "i", "n", "a", "t", "e", "s">>
Str_SAM == <<"S", "A", "M">>

NameChars ==
    ("time_index" :> Str_time_index)
    @@ ("meta" :> Str_meta)
    @@ ("coordinates" :> Str_coordinates)
    @@ ("windspeed" :> <<"w", "i", "n", "d", "s", "p", "e", "e", "d">>)
    @@ ("dt" :> <<"d", "t">>)
    @@ ("elevation" :> <<"e", "l", "e", "v", "a", "t", "i", "o", "n">>)
    @@ ("levels" :> <<"l", "e", "v", "e", "l", "s">>)
    @@ ("meta_SAM" :> Str_meta \o <<"_">> \o Str_SAM)
    @@ ("SAM_meta" :> Str_SAM \o <<"_">> \o Str_meta)
    @@ ("grp/time_index" :> <<"g", "r", "p", "/">> \o Str_time_index)
    @@ ("meta/ws" :> Str_meta \o <<"/", "w", "s">>)
    @@ ("time" :> <<"t", "i", "m", "e">>)

ResNames == DOMAIN NameChars

\* str.startswith
StartsWith(n, pre) == Len(n) >= Len(pre) /\ SubSeq(n, 1, Len(pre)) = pre

\* `sub in n` for strings
Contains(n, sub) ==
    \E i \in 1..(Len(n) - Len(sub) + 1) : SubSeq(n, i, i + Len(sub) - 1) = sub

\* os.path.split(ds)[1]: what follows the last "/".
PathTail(n) ==
    LET sl == {i \in DOMAIN n : n[i] = "/"}
    IN  IF sl = {} THEN n
        ELSE SubSeq(n, (CHOOSE i \in sl : \A j \in sl : j <= i) + 1, Len(n))

\* BaseResource.SCALE_ATTR, BaseResource.ADD_ATTR
SCALE_ATTR == <<"scale_factor">>
ADD_ATTR == <<"add_offset">>

\* The files: a temporal index longer than the metadata, and the two of
\* the same length.
ResFiles ==
    { [time_index |-> NTime, meta |-> NMeta], [time_index |-> NMeta, meta |-> NMeta] }

\* The datasets of a file: the temporal index, the metadata, the
\* coordinates, a time-by-site variable and three 1-D variables as long as
\* the temporal index, as long as the metadata, and as long as neither.
ResDatasets(f) ==
    { [name |-> "time_index", shape |-> <<f.time_index>>,
       chunks |-> None, attrs |-> AttrsNone, base |-> RawBase],
      [name |-> "meta", shape |-> <<f.meta>>,
       chunks |-> None, attrs |-> AttrsNone, base |-> RawBase + 1],
      [name |-> "coordinates", shape |-> <<f.meta, 2>>,
       chunks |-> None, attrs |-> AttrsNone, base |-> RawBase + 2],
      [name |-> "windspeed", shape |-> <<f.time_index, f.meta>>,
       chunks |-> Some(<<CTime, CSite>>), attrs |-> AttrsScale10, base |-> RawBase + 3],
      [name |-> "dt", shape |-> <<f.time_index>>,
       chunks |-> Some(<<CSite>>), attrs |-> AttrsScaleOffset, base |-> RawBase + 4],
      [name |-> "elevation", shape |-> <<f.meta>>,
       chunks |-> None, attrs |-> AttrsNone, base |-> RawBase + 5],
      [name |-> "levels", shape |-> <<f.time_index + f.meta>>,
       chunks |-> Some(<<CSite>>), attrs |-> AttrsOffset, base |-> RawBase + 6] }

\* BaseResource.datasets, self.h5[name], BaseResource.shapes
datasets(f) == {d.name : d \in ResDatasets(f)}

H5(f, name) == CHOOSE d \in ResDatasets(f) : d.name = name

shapes(f) == [n \in datasets(f) |-> H5(f, n).shape]

\* Fault: the SAM test made before the prefix tests.
Handler_SamFirst(ds_name) ==
    IF Contains(ds_name, Str_SAM) THEN "get_SAM_df"
    ELSE IF StartsWith(ds_name, Str_time_index) THEN "_get_time_index"
    ELSE IF StartsWith(ds_name, Str_meta) THEN "_get_meta"
    ELSE IF StartsWith(ds_name, Str_coordinates) THEN "_get_coords"
    ELSE "_get_ds"

\* The if / elif chain of BaseResource.__getitem__ (lines 671-689).
Handler(ds_name) ==
    IF StartsWith(ds_name, Str_time_index) THEN "_get_time_index"
    ELSE IF StartsWith(ds_name, Str_meta) THEN "_get_meta"
    ELSE IF StartsWith(ds_name, Str_coordinates) THEN "_get_coords"
    ELSE IF Contains(ds_name, Str_SAM) THEN "get_SAM_df"
    ELSE "_get_ds"

\* Fault: the dataset's shape compared before the two index shapes are.
_get_ds_with_repeated_values_ShapeFirst(f, d) ==
    LET ti_shape == shapes(f)["time_index"]
        meta_shape == shapes(f)["meta"]
    IN  IF d.shape = ti_shape THEN "spatial"
        ELSE IF d.shape = meta_shape THEN "temporal"
        ELSE IF ti_shape = meta_shape THEN "ambiguous"
        ELSE "mismatch"

\* Fault: a dataset that matches neither index reported as ambiguous.
_get_ds_with_repeated_values_NoMismatch(f, d) ==
    LET ti_shape == shapes(f)["time_index"]
        meta_shape == shapes(f)["meta"]
    IN  IF ti_shape = meta_shape THEN "ambiguous"
        ELSE IF d.shape = ti_shape THEN "spatial"
        ELSE IF d.shape = meta_shape THEN "temporal"
        ELSE "ambiguous"

\* The decision of _get_ds_with_repeated_values (lines 1378-1400).
_get_ds_with_repeated_values(f, d) ==
    LET ti_shape == shapes(f)["time_index"]
        meta_shape == shapes(f)["meta"]
    IN  IF ti_shape = meta_shape THEN "ambiguous"
        ELSE IF d.shape = ti_shape THEN "spatial"
        ELSE IF d.shape = meta_shape THEN "temporal"
        ELSE "mismatch"

\* What a handler does up to ResourceDataset.extract: it raises, or it
\* names the slice and the unscale flag it hands to extract.  shapes: the
\* handler read self.shapes, which fills the cache _shapes; err_ds: the
\* dataset name the message of the exception is formatted with.
Routed(h) ==
    [handler |-> h, via |-> "none", warned |-> FALSE, err |-> "none",
     msg |-> "", args |-> <<>>, unscale |-> FALSE, shapes |-> FALSE, err_ds |-> ""]

\* Fault: self.shapes read, and so cached, before the name is looked up.
_get_ds_ShapesFirst(f, ds_name, s) ==
    LET r == Routed("_get_ds")
        d == H5(f, ds_name)
        w == _get_ds_with_repeated_values(f, d)
        rep == [r EXCEPT !.shapes = TRUE]
    IN  IF ds_name \notin datasets(f)
        THEN [r EXCEPT !.err = "ResourceKeyError", !.msg = "not in datasets",
                       !.err_ds = ds_name, !.shapes = TRUE]
        ELSE IF Len(s) > Len(d.shape)
        THEN CASE w = "ambiguous" ->
                    [rep EXCEPT !.err = "ResourceRuntimeError", !.msg = "ambiguous",
                                !.err_ds = ds_name]
               [] w = "spatial" ->
                    [rep EXCEPT !.via = w, !.warned = TRUE, !.args = SubSeq(s, 1, 1),
                                !.unscale = f._unscale]
               [] w = "temporal" ->
                    [rep EXCEPT !.via = w, !.warned = TRUE, !.args = Tail(s),
                                !.unscale = f._unscale]
               [] OTHER ->
                    [rep EXCEPT !.err = "ResourceRuntimeError", !.msg = "shape mismatch",
                                !.err_ds = ds_name]
        ELSE [r EXCEPT !.args = s, !.unscale = f._unscale]

\* BaseResource._get_ds (lines 1344-1355) with the branches of
\* _get_ds_with_repeated_values.
_get_ds(f, ds_name, s) ==
    LET r == Routed("_get_ds")
        d == H5(f, ds_name)
        w == _get_ds_with_repeated_values(f, d)
        rep == [r EXCEPT !.shapes = TRUE]
    IN  IF ds_name \notin datasets(f)
        THEN [r EXCEPT !.err = "ResourceKeyError", !.msg = "not in datasets",
                       !.err_ds = ds_name]
        ELSE IF Len(s) > Len(d.shape)
        THEN CASE w = "ambiguous" ->
                    [rep EXCEPT !.err = "ResourceRuntimeError", !.msg = "ambiguous",
                                !.err_ds = ds_name]
               [] w = "spatial" ->
                    [rep EXCEPT !.via = w, !.warned = TRUE, !.args = SubSeq(s, 1, 1),
                                !.unscale = f._unscale]
               [] w = "temporal" ->
                    [rep EXCEPT !.via = w, !.warned = TRUE, !.args = Tail(s),
                                !.unscale = f._unscale]
               [] OTHER ->
                    [rep EXCEPT !.err = "ResourceRuntimeError", !.msg = "shape mismatch",
                                !.err_ds = ds_name]
        ELSE [r EXCEPT !.args = s, !.unscale = f._unscale]

\* _get_time_index (1234-1237) and _get_coords (1306-1309): the first entry
\* of the slice, raw.
_get_first(h, f, ds_name, s) ==
    IF ds_name \in datasets(f) THEN [Routed(h) EXCEPT !.args = <<s[1]>>]
    ELSE [Routed(h) EXCEPT !.err = "KeyError", !.msg = "h5"]

\* _get_meta (1262-1268): the rows of the first entry, an integer site as
\* the range of that one row, raw.
_get_meta(f, ds_name, s) ==
    LET sites == IF IsInt(s[1])
                 THEN SliceE(Some(s[1].idx[1]), Some(s[1].idx[1] + 1), None)
                 ELSE s[1]
    IN  IF ds_name \in datasets(f) THEN [Routed("_get_meta") EXCEPT !.args = <<sites>>]
        ELSE [Routed("_get_meta") EXCEPT !.err = "KeyError", !.msg = "h5"]

\* The SAM branch (lines 680-686); BaseResource.get_SAM_df is the
\* placeholder that raises (1313-1324).
get_SAM_df(s) ==
    IF IsInt(s[1])
    THEN [Routed("get_SAM_df") EXCEPT !.err = "NotImplementedError",
                                      !.msg = "placeholder"]
    ELSE [Routed("get_SAM_df") EXCEPT !.err = "ResourceRuntimeError",
                                      !.msg = "single site"]

Dispatch(f, name, s) ==
    LET h == Handler(PathTail(NameChars[name]))
    IN  CASE h = "_get_time_index" -> _get_first(h, f, name, s)
          [] h = "_get_coords" -> _get_first(h, f, name, s)
          [] h = "_get_meta" -> _get_meta(f, name, s)
          [] h = "get_SAM_df" -> get_SAM_df(s)
          [] OTHER -> _get_ds(f, name, s)

\* Fault: astype that leaves the dtype as it is.
astype_Keep(a, dtype) == a

\* ndarray.astype
astype(a, dtype) == [a EXCEPT !.dtype = dtype]

\* Fault: every row filled with the first selected time's value.
_get_ds_with_spatial_repeat_FirstRow(o, s, f) ==
    LET n == shapes(f)["meta"][1]
        first == o.data[[a \in 1..Len(o.shape) |-> 0]]
        rep == IF o.shape = <<>>
               THEN [shape |-> <<n>>, dtype |-> "float32",
                     data |-> [r \in Indices(<<n>>) |-> first]]
               ELSE [shape |-> <<o.shape[1], n>>, dtype |-> o.dtype,
                     data |-> [r \in Indices(<<o.shape[1], n>>) |-> first]]
    IN  astype(IF o.shape = <<>> THEN ArrGet(rep, <<s[2]>>)
               ELSE ArrGet(rep, <<FullSlice, s[2]>>), "float32")

\* _get_ds_with_spatial_repeat after extract (lines 1432-1439): o is what
\* extract returned for ds_slice[:1], a scalar or a 1-D array.
_get_ds_with_spatial_repeat(o, s, f) ==
    LET n == shapes(f)["meta"][1]
        rep == IF o.shape = <<>>
               THEN [shape |-> <<n>>, dtype |-> "float32",
                     data |-> [r \in Indices(<<n>>) |-> o.data[<<>>]]]
               ELSE [shape |-> <<o.shape[1], n>>, dtype |-> o.dtype,
                     data |-> [r \in Indices(<<o.shape[1], n>>) |-> o.data[<<r[1]>>]]]
    IN  astype(IF o.shape = <<>> THEN ArrGet(rep, <<s[2]>>)
               ELSE ArrGet(rep, <<FullSlice, s[2]>>), "float32")

\* Fault: every column filled with the first selected site's value.
_get_ds_with_temporal_repeat_FirstCol(o, s, f) ==
    LET n == shapes(f)["time_index"][1]
        first == o.data[[a \in 1..Len(o.shape) |-> 0]]
        rep == IF o.shape = <<>>
               THEN [shape |-> <<n>>, dtype |-> "float32",
                     data |-> [r \in Indices(<<n>>) |-> first]]
               ELSE [shape |-> <<n, o.shape[1]>>, dtype |-> "float64",
                     data |-> [r \in Indices(<<n, o.shape[1]>>) |-> first]]
    IN  astype(ArrGet(rep, <<s[1]>>), "float32")

\* _get_ds_with_temporal_repeat after extract (lines 1470-1477): o is what
\* extract returned for ds_slice[1:].
_get_ds_with_temporal_repeat(o, s, f) ==
    LET n == shapes(f)["time_index"][1]
        rep == IF o.shape = <<>>
               THEN [shape |-> <<n>>, dtype |-> "float32",
                     data |-> [r \in Indices(<<n>>) |-> o.data[<<>>]]]
               ELSE [shape |-> <<n, o.shape[1]>>, dtype |-> "float64",
                     data |-> [r \in Indices(<<n, o.shape[1]>>) |-> o.data[<<r[2]>>]]]
    IN  astype(ArrGet(rep, <<s[1]>>), "float32")

\* What the handler returns once extract has returned o.
HandlerOut(c, o, f) ==
    IF c.via = "spatial" THEN _get_ds_with_spatial_repeat(o, c.ds_slice, f)
    ELSE IF c.via = "temporal" THEN _get_ds_with_temporal_repeat(o, c.ds_slice, f)
    ELSE o

\* The entries asked for on an axis of length n.
AxisPicks(n) ==
    { IntE(0), IntE(n - 1), FullSlice, SliceE(Some(1), None, None),
      ListE(<<n - 1, 0>>), ListE(<<0>>) }

\* The sites asked for of a metadata table of n rows.
MetaSlices(n) ==
    { IntE(0), IntE(n - 1), FullSlice, ListE(<<n - 1, 0>>), ListE(<<0>>),
      SliceE(None, Some(1), None), SliceE(Some(1), Some(n), None),
      SliceE(Some(1), None, None), SliceE(None, None, Some(2)),
      SliceE(None, Some(n + 1), None) }

\* The slice tuples asked for with a name: for a 1-D variable one entry or
\* (time, site) entries; for the 2-D variable up to three entries; for the
\* metadata its sites; for every other name one entry.
ResSlices(f, name) ==
    IF name \in {"dt", "elevation", "levels"}
    THEN {<<e>> : e \in {IntE(0), FullSlice, ListE(<<1, 0>>)}}
         \cup {<<t, s>> : t \in AxisPicks(f.time_index), s \in AxisPicks(f.meta)}
    ELSE IF name = "windspeed"
    THEN { <<FullSlice>>, <<IntE(0), FullSlice>>, <<ListE(<<1, 0>>), IntE(0)>>,
           <<ListE(<<1, 0>>), ListE(<<0>>)>>,
           <<FullSlice, FullSlice, IntE(0)>>, <<IntE(0), IntE(0), FullSlice>> }
    ELSE IF name = "meta"
    THEN {<<e>> : e \in MetaSlices(f.meta)}
    ELSE {<<e>> : e \in {IntE(0), FullSlice, ListE(<<1, 0>>)}}

\* No ResourceDataset exists between two requests.
NoDs == [name |-> "", shape |-> <<>>, chunks |-> None, attrs |-> AttrsNone, base |-> 0]

NoWrapper == __init__(NoDs, SCALE_ATTR, ADD_ATTR, FALSE)

\* BaseResource.__init__ on one of the files, with its unscale argument.
InitRes ==
    /\ \E f \in ResFiles, u \in BOOLEAN :
          res = [NoRes EXCEPT !.time_index = f.time_index, !.meta = f.meta,
                              !._unscale = u, !.h5 = "open"]
    /\ call = NoCall
    /\ rechunk = NoTool
    /\ web = NoTool
    /\ _ds = NoDs
    /\ _scale_factor = NoWrapper.scale_factor
    /\ _adder = NoWrapper.adder
    /\ _unscale = NoWrapper.unscale
    /\ unscale_arg = FALSE
    /\ attr_arg = AttrArg(SCALE_ATTR, ADD_ATTR, NoDs.attrs)
    /\ memo = NoMemo
    /\ order = <<>>
    /\ pc = "idle"
    /\ ds_slice = <<>>
    /\ path = "none"
    /\ plan = <<>>
    /\ sort_idx = <<>>
    /\ start = 0
    /\ out = NoArr
    /\ reads = <<>>
    /\ result = NoArr
    /\ err = NoErr

\* BaseResource.__getitem__ up to the construction of the ResourceDataset
\* in ResourceDataset.extract (lines 667-689, 580-582): the handler is
\* chosen and either raises or wraps the dataset.
BaseResource__getitem__ ==
    /\ call.stage = "idle"
    /\ pc = "idle"
    /\ \E name \in ResNames : \E s \in ResSlices(res, name) :
          LET r == Dispatch(res, name, s)
              d == H5(res, name)
              w == __init__(d, SCALE_ATTR, ADD_ATTR, r.unscale)
          IN  /\ call' = [stage |-> IF r.err = "none" THEN "extract" ELSE "raised",
                          name |-> name, ds_slice |-> s, handlers |-> <<r.handler>>,
                          via |-> r.via, warned |-> r.warned, args |-> r.args,
                          out |-> NoArr, err |-> r.err, msg |-> r.msg,
                          err_ds |-> r.err_ds, err_slices |-> <<>>, gid |-> <<>>,
                          yielded |-> <<>>]
              /\ res' = [res EXCEPT !._shapes = @ \/ r.shapes]
              /\ IF r.err = "none"
                 THEN /\ _ds' = d
                      /\ _scale_factor' = w.scale_factor
                      /\ _adder' = w.adder
                      /\ _unscale' = w.unscale
                      /\ unscale_arg' = r.unscale
                      /\ attr_arg' = AttrArg(SCALE_ATTR, ADD_ATTR, d.attrs)
                 ELSE UNCHANGED <<wrapper, unscale_arg, attr_arg>>
    /\ UNCHANGED <<pc, ds_slice, path, plan, sort_idx, start, out, reads,
                   result, err, memo, order, tools>>

\* ResourceDataset.extract, `return dset[ds_slice]` (line 583).
extract ==
    /\ call.stage = "extract"
    /\ pc = "idle"
    /\ \E p \in SortChoices(call.args) : _get_ds_slice(call.args, p)

\* The handler after extract: an exception of the get goes on to the
\* caller, a returned array is repeated if the handler repeats.
\* _get_meta after extract (lines 1270-1276): the row labels of the table.
\* A range's labels are range(*sites.indices(stop)), stop being the range's
\* own stop or, when it has none, the number of rows extract returned;
\* slice.indices raises for a negative length.  A list is its own labels.
MetaSites(sites, nrows) ==
    IF IsSlice(sites)
    THEN LET stop == IF sites.stop = None THEN nrows ELSE sites.stop[1]
         IN  IF stop < 0 THEN [raise |-> TRUE, index |-> <<>>]
             ELSE [raise |-> FALSE, index |-> RangeSeq(SliceIndices(sites, stop))]
    ELSE [raise |-> FALSE, index |-> sites.idx]

\* pd.DataFrame(meta, index=sites) (line 1276): as many labels as rows, or
\* ValueError.
DataFrame(c, o) ==
    LET ix == MetaSites(c.args[1], o.shape[1])
    IN  IF ix.raise \/ Len(ix.index) # o.shape[1]
        THEN [c EXCEPT !.stage = "raised", !.err = "ValueError", !.msg = "DataFrame"]
        ELSE [c EXCEPT !.stage = "returned", !.out = o, !.gid = ix.index]

HandlerReturn ==
    /\ call.stage = "extract"
    /\ pc \in {"done", "raised"}
    /\ call' = IF pc = "raised"
               THEN [call EXCEPT !.stage = "raised", !.err = err.type,
                                 !.msg = IF err.cause = "" THEN "check" ELSE "read",
                                 !.err_ds = err.ds, !.err_slices = err.slices]
               ELSE IF call.handlers = <<"_get_meta">>
               THEN DataFrame(call, result)
               ELSE [call EXCEPT !.stage = "returned",
                                 !.out = HandlerOut(call, result, res)]
    /\ UNCHANGED <<res, wrapper, pc, ds_slice, path, plan, sort_idx, start, out,
                   reads, result, err, unscale_arg, attr_arg, memo, order, tools>>

\* The caller has the answer; the ResourceDataset is dropped.
ResReturn ==
    /\ call.stage \in {"returned", "raised"}
    /\ call' = NoCall
    /\ _ds' = NoDs
    /\ _scale_factor' = NoWrapper.scale_factor
    /\ _adder' = NoWrapper.adder
    /\ _unscale' = NoWrapper.unscale
    /\ unscale_arg' = FALSE
    /\ attr_arg' = AttrArg(SCALE_ATTR, ADD_ATTR, NoDs.attrs)
    /\ pc' = "idle"
    /\ ds_slice' = <<>>
    /\ path' = "none"
    /\ plan' = <<>>
    /\ sort_idx' = <<>>
    /\ start' = 0
    /\ out' = NoArr
    /\ reads' = <<>>
    /\ result' = NoArr
    /\ err' = NoErr
    /\ UNCHANGED <<res, memo, order, tools>>

NextRes ==
    \/ BaseResource__getitem__
    \/ extract
    \/ Read
    \/ \E e \in StoreErrors : ReadFail(e)
    \/ HandlerReturn
    \/ ResReturn

SpecRes == InitRes /\ [][NextRes]_vars

\* ------------------------------------------------------- BaseResource, claims
\* The request is over: it returned or it raised.
CallOver == call.stage \in {"returned", "raised"}

\* The request went to _get_ds for a dataset of the file, with more slice
\* entries than the dataset has axes.
Repeating ==
    /\ call.handlers = <<"_get_ds">>
    /\ call.name \in datasets(res)
    /\ Len(call.ds_slice) > Len(H5(res, call.name).shape)

\* The same for a 1-D dataset and a (time, site) slice.
Repeating1D ==
    /\ Repeating
    /\ Len(H5(res, call.name).shape) = 1
    /\ Len(call.ds_slice) = 2

\* The array a (time, site) slice selects from a time-by-site array whose
\* entry at (i, j) is the decoded value of the current 1-D dataset at
\* position i (axis = 1) or at position j (axis = 2).
RepeatedAlong(axis) ==
    LET v == KeyView(<<res.time_index, res.meta>>, call.ds_slice)
    IN  /\ call.out.shape = v.shape
        /\ \A r \in Indices(v.shape) :
              call.out.data[r] = Decoded(RatOfInt(RawAt(_ds, <<v.src[r][axis]>>)))

\* C12: BaseResource.__getitem__ hands every request to exactly one
\* handler, chosen from the last path component of the dataset name in the
\* priority time_index prefix, meta prefix, coordinates prefix, contains
\* SAM, anything else.  The SAM handler is reached for one integer site
\* only, any other site is a runtime error; the first three read raw; the
\* generic handler wraps the dataset named with the accessor's SCALE_ATTR,
\* ADD_ATTR and unscale flag.
C12_Routing ==
    call.stage # "idle" =>
       LET last == PathTail(NameChars[call.name])
           h == call.handlers[1]
           ti == StartsWith(last, Str_time_index)
           me == StartsWith(last, Str_meta)
           co == StartsWith(last, Str_coordinates)
           sam == Contains(last, Str_SAM)
           w == __init__(H5(res, call.name), SCALE_ATTR, ADD_ATTR, res._unscale)
       IN  /\ Len(call.handlers) = 1
           /\ ti => h = "_get_time_index"
           /\ (~ti /\ me) => h = "_get_meta"
           /\ (~ti /\ ~me /\ co) => h = "_get_coords"
           /\ (~ti /\ ~me /\ ~co /\ sam) =>
                 /\ h = "get_SAM_df"
                 /\ call.stage = "raised" /\ pc = "idle" /\ reads = <<>>
                 /\ ~IsInt(call.ds_slice[1]) =>
                       call.err = "ResourceRuntimeError" /\ call.msg = "single site"
                 /\ IsInt(call.ds_slice[1]) => call.msg = "placeholder"
           /\ (~ti /\ ~me /\ ~co /\ ~sam) => h = "_get_ds"
           /\ (h \in {"_get_time_index", "_get_meta", "_get_coords"}
               /\ call.msg # "h5") =>
                 /\ _ds = H5(res, call.name)
                 /\ ~_unscale
                 /\ call.stage = "returned" => call.out.dtype = "int"
           /\ (h = "_get_ds" /\ call.err \notin {"ResourceKeyError"}
               /\ call.msg \notin {"ambiguous", "shape mismatch"}) =>
                 /\ _ds = H5(res, call.name)
                 /\ _scale_factor = w.scale_factor
                 /\ _adder = w.adder
                 /\ _unscale = w.unscale
                 /\ unscale_arg = res._unscale

\* C12 witness: a name that starts with meta and contains SAM went to the
\* metadata handler, which found no such dataset.
C12_Witness ==
    /\ call.stage = "raised"
    /\ call.name = "meta_SAM"
    /\ call.handlers = <<"_get_meta">>
    /\ call.err = "KeyError"

\* C13 as stated: a (time, site) slice of a 1-D dataset as long as the
\* temporal index is answered (its reads succeeding) with the dataset's
\* values repeated along the site axis, with a warning.
C13_AsStated ==
    (/\ CallOver
     /\ Repeating1D
     /\ H5(res, call.name).shape[1] = res.time_index
     /\ call.msg # "read")
    => (call.stage = "returned" /\ call.warned /\ RepeatedAlong(1))

\* C13, amended: a (time, site) slice of a 1-D dataset as long as the
\* temporal index, the metadata being of another length, is answered (its
\* reads succeeding) with the dataset's values repeated along the site
\* axis: entry [i, j] is the decoded value at the i-th time the slice
\* selects, for every selected site j; a warning is emitted.
C13_SpatialRepeat ==
    (/\ CallOver
     /\ Repeating1D
     /\ H5(res, call.name).shape[1] = res.time_index
     /\ res.meta # res.time_index
     /\ call.msg # "read")
    => (call.stage = "returned" /\ call.warned /\ RepeatedAlong(1))

\* C13 witness: two times by list, in request order, by all sites, of the
\* 1-D dataset as long as the temporal index, read in two reads.
C13_Witness ==
    /\ call.stage = "returned"
    /\ call.name = "dt"
    /\ call.ds_slice = <<ListE(<<NTime - 1, 0>>), FullSlice>>
    /\ res.meta # res.time_index
    /\ call.via = "spatial"
    /\ Len(reads) = 2
    /\ call.out.shape = <<2, res.meta>>
    /\ \A j \in 0..(res.meta - 1) :
          /\ call.out.data[<<0, j>>] = Decoded(RatOfInt(RawAt(_ds, <<NTime - 1>>)))
          /\ call.out.data[<<1, j>>] = Decoded(RatOfInt(RawAt(_ds, <<0>>)))

\* C14: a (time, site) slice of a 1-D dataset whose length is not the
\* temporal index's but the metadata's is answered (its reads succeeding)
\* with the dataset's values repeated along the temporal axis: entry [i, j]
\* is the decoded value at the j-th site the slice selects, for every
\* selected time i; the warning is emitted.
C14_TemporalRepeat ==
    (/\ CallOver
     /\ Repeating1D
     /\ H5(res, call.name).shape[1] # res.time_index
     /\ H5(res, call.name).shape[1] = res.meta
     /\ call.msg # "read")
    => (call.stage = "returned" /\ call.warned /\ RepeatedAlong(2))

\* C14 witness: all times by two sites by list, in request order, of the
\* 1-D dataset as long as the metadata.
C14_Witness ==
    /\ call.stage = "returned"
    /\ call.name = "elevation"
    /\ call.ds_slice = <<FullSlice, ListE(<<NMeta - 1, 0>>)>>
    /\ call.via = "temporal"
    /\ call.out.shape = <<res.time_index, 2>>
    /\ \A i \in 0..(res.time_index - 1) :
          /\ call.out.data[<<i, 0>>] = RatOfInt(RawAt(_ds, <<NMeta - 1>>))
          /\ call.out.data[<<i, 1>>] = RatOfInt(RawAt(_ds, <<0>>))

\* C15: when a 1-D dataset of length N gets a (time, site) slice and the
\* temporal index and the metadata both have length N, the request raises
\* the ambiguity error: no direction is chosen, no warning is emitted, no
\* ResourceDataset is built, nothing is read and nothing is returned.
C15_Ambiguous ==
    (/\ call.stage # "idle"
     /\ Repeating1D
     /\ H5(res, call.name).shape[1] = res.time_index
     /\ res.time_index = res.meta)
    => /\ call.stage = "raised"
       /\ call.err = "ResourceRuntimeError"
       /\ call.msg = "ambiguous"
       /\ call.via = "none"
       /\ ~call.warned
       /\ call.out = NoArr
       /\ _ds = NoDs
       /\ pc = "idle"
       /\ reads = <<>>
       /\ result = NoArr

\* C15 witness: the ambiguity error for a dataset as long as both indexes.
C15_Witness ==
    /\ call.stage = "raised"
    /\ call.name = "elevation"
    /\ call.ds_slice = <<FullSlice, IntE(0)>>
    /\ res.time_index = res.meta
    /\ call.msg = "ambiguous"

\* C16: a slice with more entries than the dataset has axes, on a dataset
\* whose shape is neither the temporal index's nor the metadata's, those
\* two being different, raises the shape-mismatch error: nothing is read
\* and nothing is returned.
C16_ShapeMismatch ==
    (/\ call.stage # "idle"
     /\ Repeating
     /\ H5(res, call.name).shape # <<res.time_index>>
     /\ H5(res, call.name).shape # <<res.meta>>
     /\ res.time_index # res.meta)
    => /\ call.stage = "raised"
       /\ call.err = "ResourceRuntimeError"
       /\ call.msg = "shape mismatch"
       /\ call.via = "none"
       /\ call.out = NoArr
       /\ _ds = NoDs
       /\ pc = "idle"
       /\ reads = <<>>
       /\ result = NoArr

\* C16 witness: three entries for the time-by-site variable.
C16_Witness ==
    /\ call.stage = "raised"
    /\ call.name = "windspeed"
    /\ Len(call.ds_slice) = 3
    /\ res.time_index # res.meta
    /\ call.msg = "shape mismatch"

\* C17: whatever either repeat returns is float32, with or without scale
\* and offset attributes, unscaling on or off, the dataset's own axis
\* selected by an integer, a range or a list.
C17_Float32 ==
    (call.stage = "returned" /\ call.via \in {"spatial", "temporal"})
    => call.out.dtype = "float32"

\* C17 witness: stored integers without scale or offset, repeated along
\* the temporal axis, were returned as float32 where the get returned int.
C17_Witness ==
    /\ call.stage = "returned"
    /\ call.via = "temporal"
    /\ call.name = "elevation"
    /\ IsListLike(call.ds_slice[2])
    /\ result.dtype = "int"
    /\ call.out.dtype = "float32"

(***************************************************************************)
(* BaseResource.open_dataset (lines 1087-1108) next to __getitem__.        *)
(***************************************************************************)
\* open_dataset: the name is looked up, then the dataset is wrapped with
\* the accessor's attribute names and unscale flag and the wrapper returned.
open_dataset ==
    /\ call.stage = "idle"
    /\ pc = "idle"
    /\ \E name \in ResNames :
          LET known == name \in datasets(res)
              d == H5(res, name)
              w == __init__(d, SCALE_ATTR, ADD_ATTR, res._unscale)
          IN  /\ call' = [NoCall EXCEPT
                            !.stage = IF known THEN "returned" ELSE "raised",
                            !.name = name,
                            !.handlers = <<"open_dataset">>,
                            !.err = IF known THEN "none" ELSE "ResourceKeyError",
                            !.msg = IF known THEN "" ELSE "not in datasets",
                            !.err_ds = IF known THEN "" ELSE name]
              /\ IF known
                 THEN /\ _ds' = d
                      /\ _scale_factor' = w.scale_factor
                      /\ _adder' = w.adder
                      /\ _unscale' = w.unscale
                      /\ unscale_arg' = res._unscale
                      /\ attr_arg' = AttrArg(SCALE_ATTR, ADD_ATTR, d.attrs)
                 ELSE UNCHANGED <<wrapper, unscale_arg, attr_arg>>
    /\ UNCHANGED <<res, pc, ds_slice, path, plan, sort_idx, start, out, reads,
                   result, err, memo, order, tools>>

NextOpen ==
    \/ NextRes
    \/ open_dataset

SpecOpen == InitRes /\ [][NextOpen]_vars

\* C21: a generic-variable request, and open_dataset, for a name that is
\* not among the file's datasets raises ResourceKeyError in the step that
\* takes the request: no ResourceDataset is built, nothing is read, the
\* accessor's cached state is as it was, and the one step that follows the
\* error hands it to the caller (nothing is tried again).
C21_UnknownName ==
    [][/\ (/\ call.stage = "idle"
           /\ call'.stage # "idle"
           /\ call'.handlers[1] \in {"_get_ds", "open_dataset"}
           /\ call'.name \notin datasets(res))
          => /\ call'.stage = "raised"
             /\ call'.err = "ResourceKeyError"
             /\ Len(call'.handlers) = 1
             /\ reads' = <<>>
             /\ pc' = "idle"
             /\ res' = res
             /\ UNCHANGED wrapper
       /\ (call.stage = "raised" /\ call.err = "ResourceKeyError")
          => (call' = NoCall /\ reads' = <<>> /\ res' = res)]_vars

\* C21 witness: a generic request for an absent name has raised before the
\* shapes were ever cached.
C21_Witness ==
    /\ call.stage = "raised"
    /\ call.name = "meta/ws"
    /\ call.handlers = <<"_get_ds">>
    /\ call.err = "ResourceKeyError"
    /\ ~res._shapes
    /\ reads = <<>>

\* The request was refused as malformed: index lists of different lengths,
\* an unknown dataset name, an ambiguous repeat.
Malformed ==
    /\ call.stage = "raised"
    /\ \/ call.err \in {"IndexError", "ResourceKeyError"}
       \/ call.msg = "ambiguous"

\* C22: every error raised for a malformed request (index lists of
\* different lengths, an unknown dataset name, an ambiguous repeat) carries
\* the dataset name and the slice of the request.
C22_ErrorNamesRequest ==
    Malformed => (call.err_ds = call.name /\ call.err_slices = call.ds_slice)

\* The failing request of C22: two index lists of lengths 2 and 1 on the
\* time-by-site variable are refused with an IndexError whose message has
\* the two lengths only.
ListMismatchRaised ==
    /\ call.stage = "raised"
    /\ call.name = "windspeed"
    /\ call.ds_slice = <<ListE(<<1, 0>>), ListE(<<0>>)>>
    /\ call.err = "IndexError"
    /\ err.shapes = {1, 2}
    /\ call.err_ds = ""
    /\ call.err_slices = <<>>

\* What the three messages do carry: the unknown name and the ambiguous
\* repeat name the dataset, none of the three has the slice.
MalformedMessages ==
    Malformed =>
       /\ call.err_slices = <<>>
       /\ call.err_ds = IF call.err = "IndexError" THEN "" ELSE call.name

(***************************************************************************)
(* Scale and offset attributes under prioritized names (lines 40-47,       *)
(* 140-169).  self.ds.attrs is the live attribute map of the open          *)
(* dataset: a holder of the file may change it after the wrapper is built. *)
(***************************************************************************)
AttrNames == {"scale_factor", "psm_scale_factor", "add_offset", "psm_add_offset"}

AttrValue ==
    ("scale_factor" :> 10) @@ ("psm_scale_factor" :> 100)
    @@ ("add_offset" :> 5) @@ ("psm_add_offset" :> 7)

\* The attribute maps: every set of the four names, each with its value.
AttrMaps == {[n \in S |-> AttrValue[n]] : S \in SUBSET AttrNames}

\* A name alone (a str becomes a one-element list, lines 161-162) and the
\* prioritized lists of two names.
ScaleLists ==
    { <<"scale_factor">>, <<"scale_factor", "psm_scale_factor">>,
      <<"psm_scale_factor", "scale_factor">> }

AddLists ==
    { <<"add_offset">>, <<"add_offset", "psm_add_offset">>,
      <<"psm_add_offset", "add_offset">> }

AttrDataset(a) ==
    [name |-> "ghi", shape |-> <<NTime>>, chunks |-> None, attrs |-> a,
     base |-> RawBase]

AttrRequests == {<<IntE(0)>>, <<ListE(<<1, 0>>)>>}

\* ResourceDataset.__init__ with attribute names or lists of names.
InitAttrs ==
    /\ \E a \in AttrMaps, sa \in ScaleLists, aa \in AddLists, u \in BOOLEAN :
          LET d == AttrDataset(a)
              w == __init__(d, sa, aa, u)
          IN  /\ _ds = d
              /\ _scale_factor = w.scale_factor
              /\ _adder = w.adder
              /\ _unscale = w.unscale
              /\ unscale_arg = u
              /\ attr_arg = AttrArg(sa, aa, a)
    /\ memo = NoMemo
    /\ order = <<>>
    /\ res = NoRes
    /\ call = NoCall
    /\ rechunk = NoTool
    /\ web = NoTool
    /\ pc = "idle"
    /\ ds_slice = <<>>
    /\ path = "none"
    /\ plan = <<>>
    /\ sort_idx = <<>>
    /\ start = 0
    /\ out = NoArr
    /\ reads = <<>>
    /\ result = NoArr
    /\ err = NoErr

\* The attributes of the open dataset are changed by a holder of the file:
\* one attribute is set or deleted.
SetAttrs ==
    /\ pc = "idle"
    /\ \E a \in AttrMaps :
          /\ \E n \in AttrNames :
                /\ (n \in DOMAIN a) # (n \in DOMAIN _ds.attrs)
                /\ \A m \in AttrNames \ {n} : (m \in DOMAIN a) = (m \in DOMAIN _ds.attrs)
          /\ _ds' = [_ds EXCEPT !.attrs = a]
    /\ UNCHANGED <<_scale_factor, _adder, _unscale, pc, ds_slice, path, plan,
                   sort_idx, start, out, reads, result, err, history>>

GetAttrs ==
    /\ pc = "idle"
    /\ \E s \in AttrRequests : \E p \in SortChoices(s) : _get_ds_slice(s, p)

NextAttrs ==
    \/ GetAttrs
    \/ Read
    \/ \E e \in StoreErrors : ReadFail(e)
    \/ Return
    \/ SetAttrs

SpecAttrs == InitAttrs /\ [][NextAttrs]_vars

\* The value of the first name of the list that the attributes have, the
\* default when they have none of them.
FirstPresent(attrs, names, default) ==
    LET have == {i \in DOMAIN names : names[i] \in DOMAIN attrs}
    IN  IF have = {} THEN default
        ELSE attrs[names[CHOOSE i \in have : \A j \in have : i <= j]]

\* C23: the wrapper's scale factor and offset are, at every moment, the
\* values read at construction: for each the value of the first name of its
\* prioritized list that the dataset's attributes had then (a later name is
\* not used when an earlier one is there), 1 and 0 when none was there; a
\* get reads no attribute again, whatever the attributes have become.
C23_AttrsReadOnce ==
    /\ _scale_factor = FirstPresent(attr_arg.attrs, attr_arg.scale_attr, 1)
    /\ _adder = FirstPresent(attr_arg.attrs, attr_arg.add_attr, 0)
    /\ pc = "done" =>
          LET v == KeyView(_ds.shape, ds_slice)
              sf == FirstPresent(attr_arg.attrs, attr_arg.scale_attr, 1)
              ad == FirstPresent(attr_arg.attrs, attr_arg.add_attr, 0)
              raw(r) == RatOfInt(RawAt(_ds, v.src[r]))
          IN  \A r \in Indices(v.shape) :
                 result.data[r] =
                    IF ~unscale_arg \/ (sf = 1 /\ ad = 0) THEN raw(r)
                    ELSE IF ad # 0 THEN RatAdd(RatMul(raw(r), sf), ad)
                    ELSE RatDiv(raw(r), sf)

\* C23 witness: built with the list psm_scale_factor, scale_factor on a
\* dataset that had both, the wrapper holds the first name's value and has
\* answered a get with it after that attribute was deleted.
C23_Witness ==
    /\ pc = "done"
    /\ ds_slice = <<IntE(0)>>
    /\ attr_arg.scale_attr = <<"psm_scale_factor", "scale_factor">>
    /\ {"psm_scale_factor", "scale_factor"} \subseteq DOMAIN attr_arg.attrs
    /\ "psm_scale_factor" \notin DOMAIN _ds.attrs
    /\ _scale_factor = 100
    /\ _unscale
    /\ _adder = 0
    /\ result.data[<<>>] = RatDiv(RatOfInt(RawAt(_ds, <<0>>)), 100)

\* C24: a metadata request returns one row per selected site, labelled
\* (gid) with the site's row position in the stored table: an integer i
\* gives the row i labelled i, a range the rows and labels of the positions
\* it selects (open-ended ranges with a start other than 0 included), a list
\* its entries in request order.
C24_GidIsRowPosition ==
    (/\ CallOver
     /\ call.handlers = <<"_get_meta">>
     /\ call.name \in datasets(res)
     /\ call.msg # "read")
    => LET sel == AxisSel(call.ds_slice[1], res.meta)
       IN  /\ call.stage = "returned"
           /\ call.gid = sel
           /\ call.out.shape = <<Len(sel)>>
           /\ \A j \in DOMAIN sel :
                 call.out.data[<<j - 1>>] = RatOfInt(RawAt(_ds, <<sel[j]>>))

\* The failing request of C24: the sites 1: of the metadata end in the
\* ValueError of the table's construction, the rows read and the labels
\* counted from the number of rows read.
MetaOpenEndedRaises ==
    /\ call.stage = "raised"
    /\ call.name = "meta"
    /\ call.ds_slice = <<SliceE(Some(1), None, None)>>
    /\ call.err = "ValueError"
    /\ call.msg = "DataFrame"
    /\ Len(reads) = 1
    /\ result.shape = <<res.meta - 1>>

\* What the code keeps of C24: integers, lists and the ranges that start
\* at 0 with step 1, or have a stop within the table, are labelled with
\* the row positions.
MetaLabelled ==
    (/\ CallOver
     /\ call.handlers = <<"_get_meta">>
     /\ call.name \in datasets(res)
     /\ call.msg # "read"
     /\ LET e == call.ds_slice[1]
        IN  IsSlice(e) =>
               IF e.stop = None THEN e.start = None /\ e.step = None
               ELSE e.stop[1] \in 0..res.meta)
    => (call.stage = "returned" /\ call.gid = AxisSel(call.ds_slice[1], res.meta))

\* ------------------------------------------------------------ RechunkH5
\* The callers' specifications start with no ResourceDataset and no call:
\* the wrapper and the accessor as InitRes leaves them before a file is
\* chosen.
NoAccessorAtWork ==
    /\ res = NoRes
    /\ call = NoCall
    /\ _ds = NoDs
    /\ _scale_factor = NoWrapper.scale_factor
    /\ _adder = NoWrapper.adder
    /\ _unscale = NoWrapper.unscale
    /\ unscale_arg = FALSE
    /\ attr_arg = AttrArg(SCALE_ATTR, ADD_ATTR, NoDs.attrs)
    /\ memo = NoMemo
    /\ order = <<>>
    /\ pc = "idle"
    /\ ds_slice = <<>>
    /\ path = "none"
    /\ plan = <<>>
    /\ sort_idx = <<>>
    /\ start = 0
    /\ out = NoArr
    /\ reads = <<>>
    /\ result = NoArr
    /\ err = NoErr

\* A numpy dtype: its kind ("b" bool, "i" signed, "u" unsigned, "f"
\* floating) and item size in bytes.  The specified dtype of the rechunk
\* attributes also has a spelling: its numpy name ("float32"), another
\* string numpy reads as the same dtype ("f4"), or a dtype object.
DtypeKinds == {"b", "i", "u", "f"}

ItemSizes(kind) ==
    CASE kind = "b" -> {1}
      [] kind = "f" -> {2, 4, 8}
      [] OTHER      -> {1, 2, 4, 8}

Dtypes ==
    {[kind |-> k, itemsize |-> n] : k \in DtypeKinds, n \in {1, 2, 4, 8}}
    \ {d \in [kind : DtypeKinds, itemsize : {1, 2, 4, 8}] :
          d.itemsize \notin ItemSizes(d.kind)}

Spellings == {"name", "code", "dtype"}

\* np.dtype(dtype): the dtype a specified dtype stands for.
np_dtype(dtype) == [kind |-> dtype.kind, itemsize |-> dtype.itemsize]

\* A source dtype as a value of dset_attrs['dtype'].
AsSpecified(d) == [kind |-> d.kind, itemsize |-> d.itemsize, spelling |-> "dtype"]

\* ds_in.dtype.name != dtype: two strings are compared as strings, a
\* string and a dtype object as dtypes.
NameDiffers(ds_dtype, dtype) ==
    IF dtype.spelling = "code" THEN TRUE ELSE ds_dtype # np_dtype(dtype)

\* np.issubdtype(d, np.floating), np.issubdtype(d, np.integer)
IsFloating(d) == d.kind = "f"
IsInteger(d) == d.kind \in {"i", "u"}

\* any(c for c in attrs if 'scale_factor' in c): attribute names are
\* sequences of words, and a non-empty name is true.
AnyScaleFactor(attrs) ==
    \E c \in attrs : Contains(c, SCALE_ATTR) /\ c # <<>>

\* RechunkH5._check_dtype with integer sources allowed to become floats.
_check_dtype_ScaleUp(ds_dtype, dset_attrs) ==
    LET dtype == dset_attrs.dtype
        attrs == dset_attrs.attrs
        float_to_int == IsFloating(ds_dtype) /\ IsInteger(np_dtype(dtype))
        same == [raised |-> "", warnings |-> <<>>, dset_attrs |-> dset_attrs]
    IN  IF ~NameDiffers(ds_dtype, dtype) THEN same
        ELSE IF float_to_int
             THEN IF ~AnyScaleFactor(attrs)
                  THEN [same EXCEPT !.raised = "RuntimeError",
                                    !.warnings = <<"match">>]
                  ELSE [same EXCEPT !.warnings = <<"match", "converting">>]
        ELSE IF np_dtype(dtype).itemsize > ds_dtype.itemsize
             THEN [same EXCEPT !.warnings = <<"match", "precision">>,
                               !.dset_attrs.dtype = AsSpecified(ds_dtype)]
        ELSE [same EXCEPT !.warnings = <<"match">>]

\* RechunkH5._check_dtype(ds_in, dset_attrs): what it raises, the warnings
\* it gives in order, and dset_attrs as it leaves it.
_check_dtype(ds_dtype, dset_attrs) ==
    LET dtype == dset_attrs.dtype
        attrs == dset_attrs.attrs
        float_to_int == IsFloating(ds_dtype) /\ IsInteger(np_dtype(dtype))
        int_to_float == IsInteger(ds_dtype) /\ IsFloating(np_dtype(dtype))
        same == [raised |-> "", warnings |-> <<>>, dset_attrs |-> dset_attrs]
    IN  IF ~NameDiffers(ds_dtype, dtype) THEN same
        ELSE IF float_to_int
             THEN IF ~AnyScaleFactor(attrs)
                  THEN [same EXCEPT !.raised = "RuntimeError",
                                    !.warnings = <<"match">>]
                  ELSE [same EXCEPT !.warnings = <<"match", "converting">>]
        ELSE IF int_to_float
             THEN [same EXCEPT !.raised = "RuntimeError",
                               !.warnings = <<"match">>]
        ELSE IF np_dtype(dtype).itemsize > ds_dtype.itemsize
             THEN [same EXCEPT !.warnings = <<"match", "precision">>,
                               !.dset_attrs.dtype = AsSpecified(ds_dtype)]
        ELSE [same EXCEPT !.warnings = <<"match">>]

\* The attribute names of the rechunk attributes of a variable.
RechunkAttrNames ==
    {<<"scale_factor">>, <<"psm_", "scale_factor">>, <<"units">>}

\* A source dataset and the rechunk attributes of its variable.
InitDtype ==
    /\ NoAccessorAtWork
    /\ web = NoTool
    /\ \E d \in Dtypes, t \in Dtypes, sp \in Spellings,
          a \in SUBSET RechunkAttrNames :
          rechunk = [stage |-> "check_dset_attrs", ds_in |-> d,
                     dset_attrs |-> [dtype |-> [kind |-> t.kind,
                                                itemsize |-> t.itemsize,
                                                spelling |-> sp],
                                     attrs |-> a],
                     checked |-> [raised |-> "", warnings |-> <<>>,
                                  dset_attrs |-> <<>>]]

\* RechunkH5.check_dset_attrs(ds_in, dset_attrs) with check_attrs False.
check_dset_attrs ==
    /\ rechunk.stage = "check_dset_attrs"
    /\ rechunk' = [rechunk EXCEPT
                      !.stage = "checked",
                      !.checked = _check_dtype(rechunk.ds_in, rechunk.dset_attrs)]
    /\ UNCHANGED <<wrapper, pc, ds_slice, path, plan, sort_idx, start, out,
                   reads, result, err, unscale_arg, attr_arg, memo, order,
                   accessor, web>>

SpecDtype == InitDtype /\ [][check_dset_attrs]_vars

\* C25: the dtype check of a rechunk.  With a specified dtype other than
\* the source's, a float source with an integer target and a scale_factor
\* attribute keeps the specified dtype and goes on with a warning, a target
\* of the source's kind and a greater item size falls back to the source
\* dtype and goes on with a warning, and the check raises in exactly two
\* cases: float to integer without a scale_factor attribute, and integer to
\* float.  With equal dtypes the attributes come back as they were given.
C25_DtypeCheck ==
    rechunk.stage = "checked" =>
       LET s == rechunk.ds_in
           given == rechunk.dset_attrs
           t == np_dtype(given.dtype)
           c == rechunk.checked
           scaled == \E n \in given.attrs : Contains(n, <<"scale_factor">>)
           f2i == s.kind = "f" /\ t.kind \in {"i", "u"}
           i2f == s.kind \in {"i", "u"} /\ t.kind = "f"
       IN  /\ (s # t /\ f2i /\ scaled) =>
                 /\ c.raised = ""
                 /\ c.dset_attrs = given
                 /\ c.warnings # <<>>
           /\ (s # t /\ s.kind = t.kind /\ t.itemsize > s.itemsize) =>
                 /\ c.raised = ""
                 /\ np_dtype(c.dset_attrs.dtype) = s
                 /\ c.dset_attrs.attrs = given.attrs
                 /\ c.warnings # <<>>
           /\ c.raised # "" <=> (s # t /\ ((f2i /\ ~scaled) \/ i2f))
           /\ s = t => (c.raised = "" /\ c.dset_attrs = given)

\* A float32 source checked against int16 with a psm_scale_factor
\* attribute: the specified dtype is kept and the conversion announced.
C25_Witness ==
    /\ rechunk.stage = "checked"
    /\ rechunk.ds_in = [kind |-> "f", itemsize |-> 4]
    /\ np_dtype(rechunk.dset_attrs.dtype) = [kind |-> "i", itemsize |-> 2]
    /\ <<"psm_", "scale_factor">> \in rechunk.dset_attrs.attrs
    /\ rechunk.checked.raised = ""
    /\ rechunk.checked.warnings = <<"match", "converting">>

\* ------------------------------------------- the output array's shape
\* The shape of the logical result of a request with index lists: for
\* every range axis the number of positions the range selects from the
\* dataset's axis, one dimension of the list length at the first list
\* axis, nothing for integer axes.
LogicalShape(shape, s) ==
    LET fk == FullKey(s, Len(shape))
        kept == {a \in DOMAIN fk : IsSlice(fk[a]) \/ a = FirstListAxis(fk)}
        axisOf == [j \in 1..Cardinality(kept) |->
                     CHOOSE a \in kept : Cardinality({b \in kept : b <= a}) = j]
    IN  [j \in 1..Cardinality(kept) |->
            IF IsSlice(fk[axisOf[j]])
            THEN Len(AxisSel(fk[axisOf[j]], shape[axisOf[j]]))
            ELSE LenE(fk[axisOf[j]])]

\* C26: on the split single-list path and on the multi-list path the
\* output array built before the first read has exactly the shape of the
\* logical result, for any start, stop and step of the ranges, so that no
\* request ends in the ValueError of a shape that cannot be built or of a
\* read that does not fit its region.
C26_OutArrayShape ==
    /\ (path \in {"split", "multi"} /\ pc = "reading" /\ reads = <<>>)
          => out.shape = LogicalShape(_ds.shape, ds_slice)
    /\ ~(pc = "raised" /\ err.type = "ValueError")

\* Two failing requests of C26: a range with a negative stop beside two
\* index lists is refused before any read, and a range with a stop beyond
\* its axis gets an output array the first read does not fit.
NegativeStopRaises ==
    /\ pc = "raised"
    /\ err.type = "ValueError"
    /\ reads = <<>>
    /\ \E a \in DOMAIN ds_slice :
          /\ IsSlice(ds_slice[a])
          /\ ds_slice[a].stop # None
          /\ ds_slice[a].stop[1] < 0

StopBeyondAxisRaises ==
    /\ pc = "raised"
    /\ err.type = "ValueError"
    /\ Len(reads) = 1
    /\ \E a \in DOMAIN ds_slice :
          /\ IsSlice(ds_slice[a])
          /\ ds_slice[a].stop # None
          /\ ds_slice[a].stop[1] > _ds.shape[a]

\* A third: a range with a negative start and a stop gets an output array
\* of another shape than the result, and the reads are broadcast into it.
NegativeStartMisshapen ==
    /\ pc = "done"
    /\ path \in {"split", "multi"}
    /\ result.shape # LogicalShape(_ds.shape, ds_slice)

\* What the code keeps of C26: with the bounds of every range within its
\* axis the output array has the shape of the logical result and every
\* read fits.
OutArrayShapeInBounds ==
    RangesInBounds(_ds.shape, ds_slice) =>
       /\ (path \in {"split", "multi"} /\ pc = "reading" /\ reads = <<>>)
             => out.shape = LogicalShape(_ds.shape, ds_slice)
       /\ ~(pc = "raised" /\ err.type = "ValueError")

\* ------------------------------------------- BaseResource as an iterator
\* The keys of the file in the order h5py lists them (by name), and
\* BaseResource.datasets as the list it is.
KeyOrder ==
    <<"coordinates", "dt", "elevation", "levels", "meta", "time_index",
      "windspeed">>

dataset_list(f) == SelectSeq(KeyOrder, LAMBDA n : n \in datasets(f))

\* iter(res), as a for loop makes it: BaseResource.__iter__ returns the
\* accessor itself.  A loop that was under way is abandoned.
__iter__ ==
    /\ call.stage \in {"idle", "iterating", "exhausted"}
    /\ pc = "idle"
    /\ call' = [NoCall EXCEPT !.stage = "iterating", !.handlers = <<"__iter__">>]
    /\ UNCHANGED <<res, wrapper, pc, ds_slice, path, plan, sort_idx, start, out,
                   reads, result, err, unscale_arg, attr_arg, memo, order, tools>>

\* BaseResource.__next__: StopIteration with the cursor back at 0, or the
\* dataset at the cursor with the cursor moved on.
__next__(f) ==
    IF f._i >= Len(dataset_list(f))
    THEN [stop |-> TRUE, dset |-> "", _i |-> 0]
    ELSE [stop |-> FALSE, dset |-> dataset_list(f)[f._i + 1], _i |-> f._i + 1]

\* next() on the iterator of the loop under way.
next ==
    /\ call.stage = "iterating"
    /\ LET n == __next__(res)
       IN  /\ res' = [res EXCEPT !._i = n._i]
           /\ call' = IF n.stop THEN [call EXCEPT !.stage = "exhausted"]
                      ELSE [call EXCEPT !.yielded = Append(@, n.dset)]
    /\ UNCHANGED <<wrapper, pc, ds_slice, path, plan, sort_idx, start, out,
                   reads, result, err, unscale_arg, attr_arg, memo, order, tools>>

NextIter ==
    \/ __iter__
    \/ next

SpecIter == InitRes /\ [][NextIter]_vars

IsPrefix(p, l) == Len(p) <= Len(l) /\ SubSeq(l, 1, Len(p)) = p

\* C27: every iteration started with iter() yields each dataset name
\* exactly once, in the order of the datasets list and from the first one
\* on, whatever earlier iterations of the accessor did; the cursor stays
\* between 0 and the number of datasets and is 0 once exhaustion has been
\* signalled.
C27_IterationYieldsAll ==
    /\ call.stage = "iterating" => IsPrefix(call.yielded, dataset_list(res))
    /\ call.stage = "exhausted" => call.yielded = dataset_list(res)
    /\ res._i \in 0..Len(dataset_list(res))
    /\ call.stage = "exhausted" => res._i = 0

\* The failing run of C27: a loop abandoned after its first dataset, and
\* the next loop run to exhaustion without the first dataset.
IterationStartsMidway ==
    /\ call.stage = "exhausted"
    /\ call.yielded = SubSeq(dataset_list(res), 2, Len(dataset_list(res)))

\* What the code keeps of C27: the cursor, and the loops that start with
\* the cursor at 0.
CursorInRange ==
    /\ res._i \in 0..Len(dataset_list(res))
    /\ call.stage = "exhausted" => res._i = 0
    /\ call.stage \in {"iterating", "exhausted"} =>
          \E k \in 0..Len(dataset_list(res)) :
             call.yielded = SubSeq(dataset_list(res), k + 1, k + Len(call.yielded))

\* ------------------------------------------------- RechunkH5.rechunk
\* RechunkH5.NON_TS_DSETS
NON_TS_DSETS == {"meta", "coordinates", "time_index"}

\* The index of the rechunk attributes, in its order: the three datasets
\* that are no time series and two variables.
AttrsIndex == <<"time_index", "meta", "coordinates", "windspeed", "dt">>

\* The source files: one with the temporal index, the metadata and the two
\* variables, one without metadata, one without the second variable.
SrcFiles ==
    { {"time_index", "meta", "windspeed", "dt"},
      {"time_index", "windspeed", "dt"},
      {"time_index", "meta", "windspeed"} }

\* RechunkH5._get_attrs(index) is not None, for the name of a dataset.
_get_attrs(r, index) == index \in r.rechunk_attrs

\* RechunkH5.variable_attrs: the rows of the variables, in index order.
variable_attrs(r) ==
    SelectSeq(AttrsIndex,
              LAMBDA idx : /\ idx \in r.rechunk_attrs
                           /\ idx \in r.src_dsets
                           /\ idx \notin NON_TS_DSETS \cup {"global"})

\* RechunkH5.init_dset followed by the write of the data.
Created(r, name) == [exc |-> "none", dst |-> Append(r.dst, name)]

Failed(r, e) == [exc |-> e, dst |-> r.dst]

\* The datasets of the destination file.
dsets(r) == {r.dst[j] : j \in DOMAIN r.dst}

\* RechunkH5.load_time_index: f['time_index'] of the source is written.
load_time_index(r) ==
    IF "time_index" \notin r.src_dsets THEN Failed(r, "KeyError")
    ELSE Created(r, "time_index")

\* RechunkH5.load_meta: the metadata of meta_path, or f['meta'] of the
\* source, is written.
load_meta(r) ==
    IF ~r.meta_path /\ "meta" \notin r.src_dsets THEN Failed(r, "KeyError")
    ELSE Created(r, "meta")

\* RechunkH5.load_coords: the coordinates are the latitude and longitude
\* columns of self._dst_h5['meta'].
load_coords(r) ==
    IF "meta" \notin dsets(r) THEN Failed(r, "KeyError")
    ELSE Created(r, "coordinates")

\* RechunkH5.load_dset: a variable is transferred unless the destination
\* has it.
load_dset(r, dset_name) ==
    IF dset_name \notin dsets(r) THEN Created(r, dset_name)
    ELSE [exc |-> "none", dst |-> r.dst]

\* Fault: an __exit__ that returns after the close.
__exit___Swallow(o, type) ==
    [o EXCEPT !.h5 = "closed", !.closes = @ + 1, !.raised = "none"]

\* BaseResource.__exit__ and RechunkH5.__exit__ (the same lines): close(),
\* and with an exception in flight the bare raise that sends it on.
__exit__(o, type) ==
    [o EXCEPT !.h5 = "closed", !.closes = @ + 1, !.raised = type]

\* RechunkH5.run up to the body of its with statement: the destination
\* file is created empty and the rechunk attributes are read.
InitRechunk ==
    /\ NoAccessorAtWork
    /\ web = NoTool
    /\ \E a \in SUBSET {AttrsIndex[j] : j \in DOMAIN AttrsIndex},
          f \in SrcFiles, m \in BOOLEAN :
          rechunk = [stage |-> "entered", rechunk_attrs |-> a, src_dsets |-> f,
                     meta_path |-> m, dst |-> <<>>, ran |-> <<>>,
                     h5 |-> "open", closes |-> 0, exc |-> "none",
                     raised |-> "none"]

RechunkIdle ==
    UNCHANGED <<wrapper, pc, ds_slice, path, plan, sort_idx, start, out,
                reads, result, err, unscale_arg, attr_arg, memo, order,
                accessor, web>>

\* One loader of rechunk() has run: what it found in the destination, and
\* where rechunk() goes from there.
Loaded(loader, o, then) ==
    rechunk' = [rechunk EXCEPT
                   !.ran = Append(@, [loader |-> loader, dsets |-> dsets(rechunk)]),
                   !.dst = o.dst,
                   !.exc = o.exc,
                   !.stage = IF o.exc = "none" THEN then ELSE "raising"]

\* rechunk() begins: the global attributes of the source are transferred.
rechunk_global ==
    /\ rechunk.stage = "entered"
    /\ rechunk' = [rechunk EXCEPT !.stage = "time_index"]
    /\ RechunkIdle

\* `if self.time_index_attrs is not None: self.load_time_index(...)`
rechunk_time_index ==
    /\ rechunk.stage = "time_index"
    /\ IF _get_attrs(rechunk, "time_index")
       THEN Loaded("load_time_index", load_time_index(rechunk), "meta")
       ELSE rechunk' = [rechunk EXCEPT !.stage = "meta"]
    /\ RechunkIdle

\* `if self.meta_attrs is not None: self.load_meta(...)`
rechunk_meta ==
    /\ rechunk.stage = "meta"
    /\ IF _get_attrs(rechunk, "meta")
       THEN Loaded("load_meta", load_meta(rechunk), "coordinates")
       ELSE rechunk' = [rechunk EXCEPT !.stage = "coordinates"]
    /\ RechunkIdle

\* `if self.coordinates_attrs is not None: self.load_coords(...)`
rechunk_coordinates ==
    /\ rechunk.stage = "coordinates"
    /\ IF _get_attrs(rechunk, "coordinates")
       THEN Loaded("load_coords", load_coords(rechunk), "variables")
       ELSE rechunk' = [rechunk EXCEPT !.stage = "variables"]
    /\ RechunkIdle

\* The loop over variable_attrs: one load_dset, or the end of rechunk().
rechunk_variables ==
    /\ rechunk.stage = "variables"
    /\ LET left == SelectSeq(variable_attrs(rechunk),
                             LAMBDA v : \A j \in DOMAIN rechunk.ran :
                                           rechunk.ran[j].loader # v)
       IN  IF left = <<>>
           THEN rechunk' = [rechunk EXCEPT !.stage = "leaving"]
           ELSE Loaded(left[1], load_dset(rechunk, left[1]), "variables")
    /\ RechunkIdle

\* A read of the source or a write of the destination fails.
rechunk_fails ==
    /\ rechunk.stage \in {"entered", "time_index", "meta", "coordinates", "variables"}
    /\ rechunk' = [rechunk EXCEPT !.stage = "raising", !.exc = "OSError"]
    /\ RechunkIdle

\* The with statement of RechunkH5.run is left.
RechunkH5__exit__ ==
    /\ rechunk.stage \in {"leaving", "raising"}
    /\ rechunk' = [__exit__(rechunk, rechunk.exc) EXCEPT !.stage = "exited"]
    /\ RechunkIdle

NextRechunk ==
    \/ rechunk_global
    \/ rechunk_time_index
    \/ rechunk_meta
    \/ rechunk_coordinates
    \/ rechunk_variables
    \/ rechunk_fails
    \/ RechunkH5__exit__

SpecRechunk == InitRechunk /\ [][NextRechunk]_vars

\* The place of a dataset in the order of rechunk().
WriteRank(name) ==
    CASE name = "time_index"  -> 1
      [] name = "meta"        -> 2
      [] name = "coordinates" -> 3
      [] OTHER                -> 4

\* C29: rechunk() writes the datasets in the order time_index, meta,
\* coordinates, variables, and load_coords never runs against a
\* destination without 'meta', whichever of time_index, meta and
\* coordinates the rechunk attributes have.
C29_CoordsAfterMeta ==
    rechunk.stage # "none" =>
       /\ \A i, j \in DOMAIN rechunk.dst :
             i < j => WriteRank(rechunk.dst[i]) <= WriteRank(rechunk.dst[j])
       /\ \A j \in DOMAIN rechunk.ran :
             rechunk.ran[j].loader = "load_coords" => "meta" \in rechunk.ran[j].dsets

\* The failing run of C29: rechunk attributes with coordinates and
\* without meta; load_coords has run on a destination without 'meta' and
\* rechunk() is left with its KeyError.
CoordsWithoutMeta ==
    /\ rechunk.stage = "raising"
    /\ rechunk.exc = "KeyError"
    /\ "coordinates" \in rechunk.rechunk_attrs
    /\ "meta" \notin rechunk.rechunk_attrs
    /\ rechunk.ran # <<>>
    /\ rechunk.ran[Len(rechunk.ran)] =
          [loader |-> "load_coords", dsets |-> dsets(rechunk)]
    /\ "meta" \notin dsets(rechunk)

\* What the code keeps of C29: the order of the writes, and 'meta' in the
\* destination whenever load_coords runs for rechunk attributes that have
\* a meta entry.
WriteOrderKept ==
    rechunk.stage # "none" =>
       /\ \A i, j \in DOMAIN rechunk.dst :
             i < j => WriteRank(rechunk.dst[i]) <= WriteRank(rechunk.dst[j])
       /\ \A j \in DOMAIN rechunk.ran :
             (rechunk.ran[j].loader = "load_coords"
                 /\ "meta" \in rechunk.rechunk_attrs)
             => "meta" \in rechunk.ran[j].dsets

\* ------------------------------------------------- the with statements
\* `with Resource(h5_file) as res:` on an accessor __init__ has opened:
\* BaseResource.__enter__ returns the accessor.
__enter__ ==
    /\ res.h5 = "open"
    /\ res.block = "none"
    /\ res' = [res EXCEPT !.block = "entered"]
    /\ UNCHANGED <<call, wrapper, pc, ds_slice, path, plan, sort_idx, start, out,
                   reads, result, err, unscale_arg, attr_arg, memo, order, tools>>

\* The body of the with statement: requests to the accessor, whose errors
\* the body may handle (ResReturn).
body ==
    /\ res.block = "entered"
    /\ NextRes

\* The body ends with no request under way.
body_ends ==
    /\ res.block = "entered"
    /\ call.stage = "idle"
    /\ pc = "idle"
    /\ res' = [res EXCEPT !.block = "leaving"]
    /\ UNCHANGED <<call, wrapper, pc, ds_slice, path, plan, sort_idx, start, out,
                   reads, result, err, unscale_arg, attr_arg, memo, order, tools>>

\* The exception of a request leaves the body unhandled.
body_raises ==
    /\ res.block = "entered"
    /\ call.stage = "raised"
    /\ res' = [res EXCEPT !.block = "raising", !.exc = call.err]
    /\ UNCHANGED <<call, wrapper, pc, ds_slice, path, plan, sort_idx, start, out,
                   reads, result, err, unscale_arg, attr_arg, memo, order, tools>>

\* The with statement is left: BaseResource.__exit__.
BaseResource__exit__ ==
    /\ res.block \in {"leaving", "raising"}
    /\ res' = [__exit__(res, res.exc) EXCEPT !.block = "exited"]
    /\ UNCHANGED <<call, wrapper, pc, ds_slice, path, plan, sort_idx, start, out,
                   reads, result, err, unscale_arg, attr_arg, memo, order, tools>>

\* An accessor used in a with statement, or a RechunkH5.run.
InitWith ==
    \/ InitRes
    \/ InitRechunk

NextWith ==
    \/ __enter__
    \/ body
    \/ body_ends
    \/ body_raises
    \/ BaseResource__exit__
    \/ NextRechunk

SpecWith == InitWith /\ [][NextWith]_vars

\* C28: leaving the with statement of a BaseResource or of a RechunkH5
\* closes the file handle exactly once (it is open and never closed while
\* the body runs, closed by one close() after), whether the body ended or
\* raised, and the exception of the body is the one the caller gets.
C28_WithCloses ==
    /\ res.block \in {"entered", "leaving", "raising"}
          => (res.h5 = "open" /\ res.closes = 0)
    /\ res.block = "exited"
          => /\ res.h5 = "closed"
             /\ res.closes = 1
             /\ res.raised = IF call.stage = "raised" THEN call.err ELSE "none"
    /\ rechunk.stage \notin {"none", "exited"}
          => (rechunk.h5 = "open" /\ rechunk.closes = 0)
    /\ rechunk.stage = "exited"
          => /\ rechunk.h5 = "closed"
             /\ rechunk.closes = 1
             /\ rechunk.raised = rechunk.exc

\* A with statement on an accessor left by the ResourceKeyError of a
\* request for a dataset the file does not have: the handle is closed and
\* the caller gets the ResourceKeyError.
C28_Witness ==
    /\ res.block = "exited"
    /\ res.h5 = "closed"
    /\ res.closes = 1
    /\ call.err = "ResourceKeyError"
    /\ res.raised = "ResourceKeyError"

\* A RechunkH5.run left by the KeyError of a loader.
RechunkLeftByKeyError ==
    /\ rechunk.stage = "exited"
    /\ rechunk.h5 = "closed"
    /\ rechunk.raised = "KeyError"

\* ---------------------------------------------------- the web handlers
\* request.args.get(name): None for a parameter the query does not have,
\* or its string.  The queries: latitude, longitude and year present,
\* empty or absent, numeric or not, for either country.
Latitudes == {None, Some(""), Some("49.2"), Some("north")}
Longitudes == {None, Some("-123.1"), Some("west")}
Years == {None, Some("2014")}
Countries == {None, Some("america")}

Queries ==
    [latitude : Latitudes, longitude : Longitudes, year : Years,
     country : Countries]

\* '{}'.format(v) for None or a string
Format(v) == IF v = None THEN "None" ELSE v[1]

\* 'wind{}_file_{}_{}.csv'.format(year, latitude, longitude), and the same
\* with 'solar': the name is made of the parameters as they came.
csv_file(kind, q) ==
    <<kind, Format(q.year), "_file_", Format(q.latitude), "_",
      Format(q.longitude), ".csv">>

\* bool(v) for None or a string, and all([...]) of three of them
Truthy(v) == v # None /\ v[1] # ""

all(vs) == \A j \in DOMAIN vs : Truthy(vs[j])

\* float(s) for the strings of the queries: the number, or ValueError.
float(s) ==
    CASE s = "49.2"   -> [raise |-> FALSE, tenths |-> 492]
      [] s = "-123.1" -> [raise |-> FALSE, tenths |-> -1231]
      [] OTHER        -> [raise |-> TRUE, tenths |-> 0]

\* The remote dataset a handler opens.
dataSet(kind, q) ==
    IF kind = "solar" THEN <<"nsrdb_tmy", Format(q.year)>>
    ELSE IF q.country = Some("america") THEN <<"wtk_conus", Format(q.year)>>
    ELSE <<"wtk_canada", Format(q.year)>>

\* Fault: a handler that checks its parameters before it looks for the
\* file.
Handle_ValidateFirst(kind, q, files) ==
    LET f == csv_file(kind, q)
        quiet == [stage |-> "responded", status |-> 200, sent |-> None,
                  opened |-> <<>>]
    IN  IF ~all(<<q.latitude, q.longitude, q.year>>)
        THEN [quiet EXCEPT !.status = 400]
        ELSE IF float(q.latitude[1]).raise \/ float(q.longitude[1]).raise
        THEN [quiet EXCEPT !.status = 400]
        ELSE IF f \in files THEN [quiet EXCEPT !.sent = Some(f)]
        ELSE [quiet EXCEPT !.stage = "retrieving",
                           !.opened = <<dataSet(kind, q)>>]

\* get_wind_data / get_solar_data up to the remote retrieval: the file that
\* exists is sent, bad parameters are answered with 400, and otherwise the
\* remote dataset is opened.
Handle(kind, q, files) ==
    LET f == csv_file(kind, q)
        quiet == [stage |-> "responded", status |-> 200, sent |-> None,
                  opened |-> <<>>]
    IN  IF f \in files THEN [quiet EXCEPT !.sent = Some(f)]
        ELSE IF ~all(<<q.latitude, q.longitude, q.year>>)
        THEN [quiet EXCEPT !.status = 400]
        ELSE IF float(q.latitude[1]).raise \/ float(q.longitude[1]).raise
        THEN [quiet EXCEPT !.status = 400]
        ELSE [quiet EXCEPT !.stage = "retrieving",
                           !.opened = <<dataSet(kind, q)>>]

\* The files a working directory may hold when the server starts: one per
\* handler for a query that passes the checks, and one for a query that
\* does not.
StartFiles ==
    { csv_file("wind", [latitude |-> Some("49.2"), longitude |-> Some("-123.1"),
                        year |-> Some("2014"), country |-> None]),
      csv_file("solar", [latitude |-> Some("49.2"), longitude |-> Some("-123.1"),
                         year |-> Some("2014"), country |-> None]),
      csv_file("wind", [latitude |-> Some("north"), longitude |-> None,
                        year |-> None, country |-> None]) }

NoQuery == [latitude |-> None, longitude |-> None, year |-> None, country |-> None]

InitWeb ==
    /\ NoAccessorAtWork
    /\ rechunk = NoTool
    /\ \E F \in SUBSET StartFiles :
          web = [stage |-> "idle", kind |-> "", query |-> NoQuery, files |-> F,
                 existed |-> FALSE, retrieved |-> "no", status |-> 0,
                 sent |-> None, opened |-> <<>>]

WebIdle ==
    UNCHANGED <<wrapper, pc, ds_slice, path, plan, sort_idx, start, out,
                reads, result, err, unscale_arg, attr_arg, memo, order,
                accessor, rechunk>>

\* A request reaches a handler.
Request(kind) ==
    /\ web.stage \in {"idle", "responded"}
    /\ \E q \in Queries :
          LET h == Handle(kind, q, web.files)
          IN  web' = [web EXCEPT !.stage = h.stage,
                                 !.kind = kind,
                                 !.query = q,
                                 !.existed = csv_file(kind, q) \in web.files,
                                 !.retrieved = "no",
                                 !.status = IF h.stage = "responded"
                                            THEN h.status ELSE 0,
                                 !.sent = h.sent,
                                 !.opened = h.opened]
    /\ WebIdle

get_wind_data == Request("wind")

get_solar_data == Request("solar")

\* send_file(path) at the end of a handler: the file, or the error of a
\* file that is not there.
send_file(f, files) ==
    IF f \in files THEN [status |-> 200, sent |-> Some(f)]
    ELSE [status |-> 500, sent |-> None]

\* get_SAM_lat_lon returns and the with statement is left: the handler goes
\* on to send_file.  Whether the library wrote out_path is its affair.
retrieval_completes ==
    /\ web.stage = "retrieving"
    /\ \E written \in BOOLEAN :
          LET f == csv_file(web.kind, web.query)
              files == IF written THEN web.files \cup {f} ELSE web.files
              r == send_file(f, files)
          IN  web' = [web EXCEPT !.stage = "responded",
                                 !.retrieved = "completed",
                                 !.files = files,
                                 !.status = r.status,
                                 !.sent = r.sent]
    /\ WebIdle

\* Opening the dataset or get_SAM_lat_lon raises: `except Exception`
\* answers 500.  The file may have been written before the exception.
retrieval_raises ==
    /\ web.stage = "retrieving"
    /\ \E written \in BOOLEAN :
          LET f == csv_file(web.kind, web.query)
          IN  web' = [web EXCEPT !.stage = "responded",
                                 !.retrieved = "raised",
                                 !.files = IF written THEN @ \cup {f} ELSE @,
                                 !.status = 500,
                                 !.sent = None]
    /\ WebIdle

NextWeb ==
    \/ get_wind_data
    \/ get_solar_data
    \/ retrieval_completes
    \/ retrieval_raises

SpecWeb == InitWeb /\ [][NextWeb]_vars

\* A parameter is missing (absent or empty), or a latitude or longitude is
\* not a number.
MissingParameters(q) ==
    \E v \in {q.latitude, q.longitude, q.year} : v = None \/ v = Some("")

NonNumeric(q) ==
    \E v \in {q.latitude, q.longitude} :
       v # None /\ v[1] \notin {"49.2", "-123.1"}

\* C30: the CSV file named from (year, latitude, longitude) is the cache
\* of get_wind_data and get_solar_data.  A file that exists is returned
\* without a check of the parameters and without opening a remote dataset;
\* otherwise missing parameters or a non-numeric latitude or longitude get
\* a 400 before any remote access, an exception of the retrieval gets a 500
\* and no file, and a file is sent only after a retrieval that completed.
C30_CsvCache ==
    web.stage # "none" =>
       /\ (web.stage = "responded" /\ web.existed) =>
             /\ web.status = 200
             /\ web.sent = Some(csv_file(web.kind, web.query))
             /\ web.opened = <<>>
       /\ (web.stage = "responded" /\ ~web.existed
             /\ (MissingParameters(web.query) \/ NonNumeric(web.query))) =>
             /\ web.status = 400
             /\ web.sent = None
             /\ web.opened = <<>>
       /\ web.stage = "retrieving" =>
             /\ ~web.existed
             /\ ~MissingParameters(web.query)
             /\ ~NonNumeric(web.query)
       /\ web.retrieved = "raised" => (web.status = 500 /\ web.sent = None)
       /\ (web.stage = "responded" /\ web.sent # None /\ ~web.existed) =>
             /\ web.retrieved = "completed"
             /\ web.sent = Some(csv_file(web.kind, web.query))

\* A file that exists under the name of a query without year and
\* longitude and with a latitude that is no number is sent as it is.
C30_Witness ==
    /\ web.stage = "responded"
    /\ web.existed
    /\ web.query.latitude = Some("north")
    /\ web.query.year = None
    /\ web.status = 200
    /\ web.sent # None
    /\ web.opened = <<>>

====
